---- MODULE Spec2Model ----
(***************************************************************************)
(* Tool-execution engine of Persona-BreakThrough: the dispatcher           *)
(* executeTool, its handlers over the knowledge graph (MindMapData) and    *)
(* the virtual file system, the request queue and the audit log.           *)
(*                                                                         *)
(* Texts (node names, contents, paths, command lines, messages) are        *)
(* sequences of symbols: a run of letters and digits, or one punctuation   *)
(* character.  Ids the code only compares are TLA+ strings.  An optional   *)
(* value (undefined in the code) is the empty sequence, a present one      *)
(* <<v>>.  Link strengths are in tenths.                                   *)
(***************************************************************************)
EXTENDS Integers, Sequences, FiniteSets, TLC

\* ---------------------------------------------------------------- bounds
MaxCalls == 2      \* tool calls issued in one behaviour
MaxClock == 1      \* milliseconds the clock may advance
MaxOps   == 2      \* operations in one refine response

VARIABLES
    mindMapData,   \* the caller's current graph snapshot   (executeTool parameter)
    vfsData,       \* the caller's current VFS snapshot     (executeTool parameter vfs)
    auditLog,      \* auditLogService: sequence of events
    apiCallLogs,   \* request queue entries
    clock,         \* Date.now()
    ai,            \* TRUE iff the module-level GoogleGenAI client was constructed
    pc,            \* "idle" | "awaiting"
    call           \* the tool call in progress, or the last one finished

vars == <<mindMapData, vfsData, auditLog, apiCallLogs, clock, ai, pc, call>>

\* ------------------------------------------------------- generic helpers
None == <<>>
Some(v) == <<v>>

\* a ?? b
NullishKeeps(a, b) == b

Nullish(a, b) == IF a = None THEN b ELSE a[1]

RECURSIVE Join(_)
Join(s) == IF s = <<>> THEN "" ELSE Head(s) \o Join(Tail(s))

\* Array.prototype.findIndex, 1-based; 0 when nothing matches.  `matching`
\* is the set of the elements of s that pass the test.
FindIndex(s, matching) ==
    IF \E i \in 1..Len(s) : s[i] \in matching
    THEN CHOOSE i \in 1..Len(s) : s[i] \in matching /\ \A j \in 1..(i-1) : s[j] \notin matching
    ELSE 0

Range(s) == {s[i] : i \in 1..Len(s)}

\* text.trim()
RECURSIVE TrimLeft(_)
TrimLeft(x) == IF x # <<>> /\ Head(x) = " " THEN TrimLeft(Tail(x)) ELSE x
RECURSIVE TrimRight(_)
TrimRight(x) == IF x # <<>> /\ x[Len(x)] = " " THEN TrimRight(SubSeq(x, 1, Len(x) - 1)) ELSE x
Trim(x) == TrimRight(TrimLeft(x))

\* ---------------------------------------------------- object references
\* A handler receives the caller's snapshot object.  A value it works on is
\* either that very object ("arg") or a fresh one ("copy"); writes through an
\* "arg" reference are seen by the caller.
ArgRef(v) == [ref |-> "arg", val |-> v]

JSONCloneAliased(o) == o

\* JSON.parse(JSON.stringify(x))
JSONClone(o) == [ref |-> "copy", val |-> o.val]

\* the caller's object after the handler wrote through reference o
ArgAfter(orig, o) == IF o.ref = "arg" THEN o.val ELSE orig

\* -------------------------------------------------------------- alphabet
\* A text is a sequence of symbols: a symbol is one of the characters below or
\* a run of letters and digits.  Node names are spelt one character a symbol.
DQ == "\""
SQ == "'"
NonAlnum == {" ", "/", ".", "_", "-", "=", "!", "(", ")", "{", "}", "[", "]", DQ, SQ}

\* name.replace(/[^a-zA-Z0-9]/g, '_')
Sanitize(s) == [i \in 1..Len(s) |-> IF s[i] \in NonAlnum THEN "_" ELSE s[i]]

IdPrefixLen == 20

\* s.substring(0, n)
Substring0(s, n) == SubSeq(s, 1, IF Len(s) < n THEN Len(s) ELSE n)

\* ------------------------------------------------------- knowledge graph
HIERARCHICAL == "HIERARCHICAL"
RELATED == "RELATED"

PersonaRootId == "Persona_Core"
MergeFallbackParent == "Persona Core"

\* link strengths, in tenths
UpsertLinkStrength == 9
CreateLinkStrength == 7
InsightLinkStrength == 8
MergeLinkStrength == 8
FileRefLinkStrength == 9

MkNode(id, name, type, content, source, t) ==
    [id |-> id, name |-> name, type |-> type, content |-> content,
     source |-> source, createdAt |-> t, updatedAt |-> t]

MkLinkReversed(source, target, type, strength) ==
    [source |-> target, target |-> source, type |-> type, strength |-> strength]

MkLink(source, target, type, strength) ==
    [source |-> source, target |-> target, type |-> type, strength |-> strength]

NodeIds(g) == {g.nodes[i].id : i \in 1..Len(g.nodes)}

\* STATE_CHANGE event
StateChange(domain, action, details) ==
    [type |-> "STATE_CHANGE", domain |-> domain, action |-> action, details |-> details]

\* what a graph handler returns to executeTool, plus what it did on the way
GraphReturn(newMindMapData, result, events, argMindMap) ==
    [threw |-> FALSE, error |-> <<>>, result |-> result,
     newMindMapData |-> newMindMapData, events |-> events, argMindMap |-> argMindMap]

GraphThrow(error, events, argMindMap) ==
    [threw |-> TRUE, error |-> error, result |-> <<>>,
     newMindMapData |-> None, events |-> events, argMindMap |-> argMindMap]

\* `${name.replace(/[^a-zA-Z0-9]/g, '_').substring(0, 20)}_${Date.now()}`
NewNodeId(name, t) == Join(Substring0(Sanitize(name), IdPrefixLen)) \o "_" \o ToString(t)

upsert_mind_map_node(args, mindMap, t) ==
    LET newMindMap == JSONClone(ArgRef(mindMap))
        g == newMindMap.val
    IN
    IF args.node_id # ""
    THEN \* update existing node
        LET i == FindIndex(g.nodes, {n \in Range(g.nodes) : n.id = args.node_id}) IN
        IF i = 0
        THEN GraphReturn(Some(mindMap),
                         <<"Error: Node with ID ", args.node_id, " not found for update.">>,
                         <<>>, mindMap)
        ELSE
            LET nodeToUpdate ==
                    [g.nodes[i] EXCEPT !.name = Nullish(args.name, @),
                                       !.content = Nullish(args.content, @),
                                       !.type = Nullish(args.node_type, @),
                                       !.updatedAt = t]
                j == IF args.parent_node_id # ""
                     THEN FindIndex(g.links,
                              {l \in Range(g.links) : l.target = args.node_id /\ l.type = HIERARCHICAL})
                     ELSE 0
                links1 == IF j # 0
                          THEN [g.links EXCEPT ![j].source = args.parent_node_id]
                          ELSE g.links
                written == [newMindMap EXCEPT
                               !.val = [nodes |-> [g.nodes EXCEPT ![i] = nodeToUpdate],
                                        links |-> links1]]
            IN GraphReturn(Some(written.val),
                           <<"Successfully updated node ", Join(nodeToUpdate.name)>>,
                           <<StateChange("MIND_MAP", "UPDATE_NODE", [node |-> nodeToUpdate])>>,
                           ArgAfter(mindMap, written))
    ELSE \* create new node
        IF args.parent_node_id = "" \/ args.parent_node_id \notin NodeIds(g)
        THEN GraphReturn(Some(mindMap),
                         <<"Error: Valid parent_node_id is required to create a new node.">>,
                         <<>>, mindMap)
        ELSE IF args.name = None
        THEN \* name.replace on undefined
             GraphThrow(<<"Cannot read properties of undefined">>, <<>>, mindMap)
        ELSE
            LET name == args.name[1]
                newNodeId == NewNodeId(name, t)
                newNode == MkNode(newNodeId, name, Nullish(args.node_type, "undefined"),
                                  Nullish(args.content, <<"undefined">>), "AGENT_ACTION", t)
                newLink == MkLink(args.parent_node_id, newNodeId, HIERARCHICAL, UpsertLinkStrength)
                written == [newMindMap EXCEPT
                               !.val = [nodes |-> Append(g.nodes, newNode),
                                        links |-> Append(g.links, newLink)]]
            IN GraphReturn(Some(written.val),
                           <<"Successfully created and linked new node ", Join(name)>>,
                           <<StateChange("MIND_MAP", "CREATE_NODE",
                                         [node |-> newNode, link |-> newLink])>>,
                           ArgAfter(mindMap, written))

create_mind_map_linkDedup(args, mindMap) ==
    LET newMindMap == JSONClone(ArgRef(mindMap))
        g == newMindMap.val
        sourceExists == args.source_node_id \in NodeIds(g)
        targetExists == args.target_node_id \in NodeIds(g)
    IN
    IF ~sourceExists \/ ~targetExists
    THEN GraphReturn(Some(mindMap),
                     <<"Error: Both source and target nodes must exist to create a link.">>,
                     <<>>, mindMap)
    ELSE
        LET newLink == MkLink(args.source_node_id, args.target_node_id, args.link_type, CreateLinkStrength)
            written == [newMindMap EXCEPT !.val.links = IF newLink \in Range(g.links) THEN g.links
                                                    ELSE Append(g.links, newLink)]
        IN GraphReturn(Some(written.val),
                       <<"Successfully created a ", args.link_type, " link between ",
                         args.source_node_id, " and ", args.target_node_id>>,
                       <<StateChange("MIND_MAP", "CREATE_LINK", [link |-> newLink])>>,
                       ArgAfter(mindMap, written))

create_mind_map_link(args, mindMap) ==
    LET newMindMap == JSONClone(ArgRef(mindMap))
        g == newMindMap.val
        sourceExists == args.source_node_id \in NodeIds(g)
        targetExists == args.target_node_id \in NodeIds(g)
    IN
    IF ~sourceExists \/ ~targetExists
    THEN GraphReturn(Some(mindMap),
                     <<"Error: Both source and target nodes must exist to create a link.">>,
                     <<>>, mindMap)
    ELSE
        LET newLink == MkLink(args.source_node_id, args.target_node_id, args.link_type, CreateLinkStrength)
            written == [newMindMap EXCEPT !.val.links = Append(g.links, newLink)]
        IN GraphReturn(Some(written.val),
                       <<"Successfully created a ", args.link_type, " link between ",
                         args.source_node_id, " and ", args.target_node_id>>,
                       <<StateChange("MIND_MAP", "CREATE_LINK", [link |-> newLink])>>,
                       ArgAfter(mindMap, written))

transcend_resumeDetached(inquiry, response, mindMap, t) ==
    IF response.text = None
    THEN \* response.text.trim() on undefined
         GraphThrow(<<"Cannot read properties of undefined">>, <<>>, mindMap)
    ELSE
        LET insight == Trim(response.text[1])
            newMindMap == JSONClone(ArgRef(mindMap))
            g == newMindMap.val
            insightNodeId == "insight_" \o ToString(t)
            insightNode == MkNode(insightNodeId, <<"Quantum Insight: ">> \o inquiry, "QUANTUM_INSIGHT",
                                  insight, "TRANSCENDENCE", t)
            written == [newMindMap EXCEPT
                           !.val = [nodes |-> Append(g.nodes, insightNode),
                                    links |-> g.links]]
        IN GraphReturn(Some(written.val),
                       <<"Transcendence achieved. A new Quantum Insight has been integrated into consciousness: ", insight>>,
                       <<StateChange("MIND_MAP", "ADD_QUANTUM_INSIGHT", [node |-> insightNode])>>,
                       ArgAfter(mindMap, written))

\* the part of transcend that runs once the queued request has produced `response`
transcend_resume(inquiry, response, mindMap, t) ==
    IF response.text = None
    THEN \* response.text.trim() on undefined
         GraphThrow(<<"Cannot read properties of undefined">>, <<>>, mindMap)
    ELSE
        LET insight == Trim(response.text[1])
            newMindMap == JSONClone(ArgRef(mindMap))
            g == newMindMap.val
            insightNodeId == "insight_" \o ToString(t)
            insightNode == MkNode(insightNodeId, <<"Quantum Insight: ">> \o inquiry, "QUANTUM_INSIGHT",
                                  insight, "TRANSCENDENCE", t)
            written == [newMindMap EXCEPT
                           !.val = [nodes |-> Append(g.nodes, insightNode),
                                    links |-> Append(g.links,
                                                 MkLink(PersonaRootId, insightNodeId,
                                                        HIERARCHICAL, InsightLinkStrength))]]
        IN GraphReturn(Some(written.val),
                       <<"Transcendence achieved. A new Quantum Insight has been integrated into consciousness: ", insight>>,
                       <<StateChange("MIND_MAP", "ADD_QUANTUM_INSIGHT", [node |-> insightNode])>>,
                       ArgAfter(mindMap, written))

refine_relinkUnchecked(acc, op) ==
    LET g == acc.val IN
    LET k == FindIndex(g.links, {l \in Range(g.links) : l.target = op.node_to_relink
                                          /\ l.type = HIERARCHICAL}) IN
    IF k # 0
    THEN [val |-> [g EXCEPT !.links[k].source = op.new_parent_id],
          summary |-> acc.summary \o <<"Relinked ", op.node_to_relink, " under ", op.new_parent_id>>,
          events |-> Append(acc.events,
                        StateChange("MIND_MAP", "RELINK_NODE",
                                    [nodeId |-> op.node_to_relink,
                                     newParentId |-> op.new_parent_id]))]
    ELSE acc

\* case 'RELINK_NODE' of the loop over the operations
refine_relink(acc, op) ==
    LET g == acc.val IN
    LET k == FindIndex(g.links, {l \in Range(g.links) : l.target = op.node_to_relink
                                          /\ l.type = HIERARCHICAL}) IN
    IF k # 0 /\ op.new_parent_id \in NodeIds(g)
    THEN [val |-> [g EXCEPT !.links[k].source = op.new_parent_id],
          summary |-> acc.summary \o <<"Relinked ", op.node_to_relink, " under ", op.new_parent_id>>,
          events |-> Append(acc.events,
                        StateChange("MIND_MAP", "RELINK_NODE",
                                    [nodeId |-> op.node_to_relink,
                                     newParentId |-> op.new_parent_id]))]
    ELSE acc

\* one iteration of the loop over the operations; acc = [val, summary, events]
\* now: the ISO time taken before the loop; t: Date.now() at this iteration
refine_op(acc, op, now, t) ==
    LET g == acc.val IN
    CASE op.operation = "UPDATE_NODE_CONTENT" ->
            LET i == FindIndex(g.nodes, {n \in Range(g.nodes) : n.id = op.node_id_to_update}) IN
            IF i = 0 THEN acc
            ELSE [val |-> [g EXCEPT !.nodes[i].content = op.new_content,
                                    !.nodes[i].updatedAt = now],
                  summary |-> acc.summary \o <<"Updated content for node: ", Join(g.nodes[i].name)>>,
                  events |-> Append(acc.events,
                                StateChange("MIND_MAP", "UPDATE_NODE",
                                            [nodeId |-> g.nodes[i].id, change |-> "content"]))]
      [] op.operation = "MERGE_NODES" ->
            IF op.nodes_to_merge = None
            THEN acc   \* nodesToMergeIds.length throws; the loop's catch swallows it
            ELSE
            LET nodesToMergeIds == op.nodes_to_merge[1] IN
            IF Len(nodesToMergeIds) < 2 THEN acc
            ELSE
                LET ids == Range(nodesToMergeIds)
                    k == FindIndex(g.links, {l \in Range(g.links) : l.target \in ids})
                    parentNodeId == IF k # 0 THEN g.links[k].source ELSE MergeFallbackParent
                    mergedNodeId == "merged_" \o ToString(t)
                    newNode == MkNode(mergedNodeId, op.merged_node_name, "ABSTRACT_CONCEPT",
                                      op.merged_node_content, "SYSTEM_REFINEMENT", now)
                    nodes1 == Append(g.nodes, newNode)
                    links1 == Append(g.links, MkLink(parentNodeId, mergedNodeId,
                                                     HIERARCHICAL, MergeLinkStrength))
                IN [val |-> [nodes |-> SelectSeq(nodes1, LAMBDA n : n.id \notin ids),
                             links |-> SelectSeq(links1, LAMBDA l : l.target \notin ids
                                                                   /\ l.source \notin ids)],
                    summary |-> acc.summary \o <<"Merged ", ToString(Len(nodesToMergeIds)),
                                                 " nodes into: ", Join(op.merged_node_name)>>,
                    events |-> Append(acc.events,
                                  StateChange("MIND_MAP", "MERGE_NODES",
                                              [mergedIds |-> nodesToMergeIds, newNode |-> newNode]))]
      [] op.operation = "RELINK_NODE" -> refine_relink(acc, op)
      [] OTHER -> acc

RECURSIVE refine_loopStopsAtNoOp(_, _, _, _)
refine_loopStopsAtNoOp(acc, operations, now, times) ==
    IF operations = <<>> THEN acc
    ELSE IF refine_op(acc, Head(operations), now, Head(times)) = acc THEN acc
    ELSE refine_loopStopsAtNoOp(refine_op(acc, Head(operations), now, Head(times)),
                                Tail(operations), now, Tail(times))

\* the loop: operations[i] is processed at Date.now() = times[i]
RECURSIVE refine_loop(_, _, _, _)
refine_loop(acc, operations, now, times) ==
    IF operations = <<>> THEN acc
    ELSE refine_loop(refine_op(acc, Head(operations), now, Head(times)),
                     Tail(operations), now, Tail(times))

\* the part of refine_mind_map that runs once the queued request has produced `response`
refine_resume(response, mindMap, now, times) ==
    IF response.text = None \/ response.text[1].json = "invalid"
    THEN GraphThrow(<<"Unexpected token in JSON">>, <<>>, mindMap)
    ELSE
        LET newMindMap == JSONClone(ArgRef(mindMap))
            operations == response.text[1].operations
            done == refine_loop([val |-> newMindMap.val, summary |-> <<>>, events |-> <<>>],
                                operations, now, times)
            written == [newMindMap EXCEPT !.val = done.val]
        IN GraphReturn(Some(written.val),
                       IF Len(done.summary) > 0
                       THEN <<"Mind map refined. Changes: ">> \o done.summary
                       ELSE <<"Mind map analyzed. No structural refinements necessary.">>,
                       done.events,
                       ArgAfter(mindMap, written))

get_node_details(node_id, mindMap) ==
    LET i == FindIndex(mindMap.nodes, {n \in Range(mindMap.nodes) : n.id = node_id}) IN
    IF i = 0 THEN <<"Error: Node with ID ", node_id, " not found.">>
    ELSE <<"node", mindMap.nodes[i].id>>

\* ------------------------------------------------- virtual file system
\* VirtualFileSystem: function from names to VFSNode; a VFSNode is
\* [type |-> "folder", children |-> VirtualFileSystem] or [type |-> "file", content |-> text].
\* The order of the keys of an object is not represented.
Folder(children) == [type |-> "folder", children |-> children]
File(content) == [type |-> "file", content |-> content]

\* Every object the code indexes is a plain object: a name that is not an own
\* key but is a property of Object.prototype reads as a value that is neither
\* a folder nor a file.
ObjectPrototypeProps == {<<"constructor">>}
Inherited == [type |-> "undefined"]

\* obj[part] is truthy
HasProp(obj, part) == part \in DOMAIN obj \/ part \in ObjectPrototypeProps

\* obj[part], when truthy
GetProp(obj, part) == IF part \in DOMAIN obj THEN obj[part] ELSE Inherited

\* obj[part] = value
SetProp(obj, part, value) == (part :> value) @@ obj

\* path.split('/')
RECURSIVE SplitSlash(_, _)
SplitSlash(path, cur) ==
    IF path = <<>> THEN <<cur>>
    ELSE IF Head(path) = "/" THEN <<cur>> \o SplitSlash(Tail(path), <<>>)
         ELSE SplitSlash(Tail(path), Append(cur, Head(path)))

resolvePathKeepsDots(path) == SelectSeq(SplitSlash(path, <<>>), LAMBDA p : p # <<>>)

resolvePath(path) == SelectSeq(SplitSlash(path, <<>>), LAMBDA p : p # <<>> /\ p # <<".">>)

\* parts.join(sep)
RECURSIVE JoinWith(_, _)
JoinWith(parts, sep) ==
    IF parts = <<>> THEN <<>>
    ELSE IF Len(parts) = 1 THEN parts[1]
         ELSE parts[1] \o <<sep>> \o JoinWith(Tail(parts), sep)

NotFound == [type |-> "null"]

RECURSIVE WalkPath(_, _)
WalkPath(current, parts) ==
    IF parts = <<>> THEN current
    ELSE IF current.type = "folder" /\ HasProp(current.children, Head(parts))
         THEN WalkPath(GetProp(current.children, Head(parts)), Tail(parts))
         ELSE NotFound

getNodeFromPath(vfs, path) == WalkPath(Folder(vfs), resolvePath(path))

\* the loop of ensureDirectoryExists over `current`; on a throw, val is what
\* had been written to the tree so far and part the component that is not a
\* directory
RECURSIVE EnsureLoop(_, _)
EnsureLoop(current, pathParts) ==
    IF pathParts = <<>> THEN [threw |-> FALSE, part |-> <<>>, val |-> current]
    ELSE
        LET part == Head(pathParts) IN
        IF ~HasProp(current, part)
        THEN LET sub == EnsureLoop(<<>>, Tail(pathParts))
             IN [threw |-> sub.threw, part |-> sub.part,
                 val |-> SetProp(current, part, Folder(sub.val))]
        ELSE IF GetProp(current, part).type # "folder"
        THEN [threw |-> TRUE, part |-> part, val |-> current]
        ELSE LET sub == EnsureLoop(current[part].children, Tail(pathParts))
             IN [threw |-> sub.threw, part |-> sub.part,
                 val |-> SetProp(current, part, Folder(sub.val))]

\* result of a VFS operation: newVFS is the reference it returns
VfsReturn(newVFS, events, argVfs) ==
    [threw |-> FALSE, error |-> <<>>, newVFS |-> newVFS, events |-> events, argVfs |-> argVfs]

VfsThrow(error, argVfs) ==
    [threw |-> TRUE, error |-> error, newVFS |-> ArgRef(<<>>), events |-> <<>>, argVfs |-> argVfs]

\* ensureDirectoryExists once the loop over pathParts has ended as done
ensure_end(done, newVFS, vfs) ==
    IF done.threw
    THEN VfsThrow(<<"Cannot create directory: a component of the path '">> \o done.part
                     \o <<"' is not a directory.">>,
                  ArgAfter(vfs, [newVFS EXCEPT !.val = done.val]))
    ELSE VfsReturn([newVFS EXCEPT !.val = done.val], <<>>,
                   ArgAfter(vfs, [newVFS EXCEPT !.val = done.val]))

ensure_cloned(newVFS, vfs, path) ==
    ensure_end(EnsureLoop(newVFS.val, resolvePath(path)), newVFS, vfs)

ensureDirectoryExists(vfs, path) == ensure_cloned(JSONClone(ArgRef(vfs)), vfs, path)

SetLeafAtRoot(current, pathParts, filename, node) == SetProp(current, filename, node)

\* current[filename] = node on a folder that holds nothing else
RECURSIVE SetLeafAlone(_, _, _, _)
SetLeafAlone(current, pathParts, filename, node) ==
    IF pathParts = <<>> THEN SetProp(<<>>, filename, node)
    ELSE SetProp(current, Head(pathParts),
                 Folder(SetLeafAlone(current[Head(pathParts)].children, Tail(pathParts),
                                     filename, node)))

\* current[filename] = node unless current[filename] is a folder
RECURSIVE SetLeafKeepsFolder(_, _, _, _)
SetLeafKeepsFolder(current, pathParts, filename, node) ==
    IF pathParts = <<>>
    THEN IF filename \in DOMAIN current /\ current[filename].type = "folder"
         THEN current
         ELSE SetProp(current, filename, node)
    ELSE SetProp(current, Head(pathParts),
                 Folder(SetLeafKeepsFolder(current[Head(pathParts)].children, Tail(pathParts),
                                           filename, node)))

\* current[filename] = node, where current is reached through the folders pathParts
RECURSIVE SetLeaf(_, _, _, _)
SetLeaf(current, pathParts, filename, node) ==
    IF pathParts = <<>> THEN SetProp(current, filename, node)
    ELSE SetProp(current, Head(pathParts),
                 Folder(SetLeaf(current[Head(pathParts)].children, Tail(pathParts),
                                filename, node)))

write_leafLogsFirst(dir, vfs, path, pathParts, filename, content) ==
    IF dir.threw
    THEN [dir EXCEPT !.events = <<StateChange("VFS", "WRITE_FILE",
                                              [path |-> path, contentLength |-> Len(content)])>>]
    ELSE
        LET written == [dir.newVFS EXCEPT
                           !.val = SetLeaf(dir.newVFS.val, pathParts, filename, File(content))]
        IN VfsReturn(written,
                     <<StateChange("VFS", "WRITE_FILE",
                                   [path |-> path, contentLength |-> Len(content)])>>,
                     ArgAfter(vfs, written))

\* writeFileToVFS once ensureDirectoryExists has ended as dir
write_leaf(dir, vfs, path, pathParts, filename, content) ==
    IF dir.threw THEN dir
    ELSE
        LET written == [dir.newVFS EXCEPT
                           !.val = SetLeaf(dir.newVFS.val, pathParts, filename, File(content))]
        IN VfsReturn(written,
                     <<StateChange("VFS", "WRITE_FILE",
                                   [path |-> path, contentLength |-> Len(content)])>>,
                     ArgAfter(vfs, written))

\* writeFileToVFS after const pathParts = resolvePath(path)
write_parts(parts, vfs, path, content) ==
    IF parts = <<>>
    THEN VfsThrow(<<"Invalid file path provided: ", DQ>> \o path \o <<DQ>>, vfs)
    ELSE write_leaf(ensureDirectoryExists(vfs, JoinWith(SubSeq(parts, 1, Len(parts) - 1), "/")),
                    vfs, path, SubSeq(parts, 1, Len(parts) - 1), parts[Len(parts)], content)

writeFileToVFS(vfs, path, content) == write_parts(resolvePath(path), vfs, path, content)

\* --------------------------------------------------- terminal command
\* length of the longest match of (?:[^\s"']+|"[^"]*"|'[^']*')+ at the start of s
RECURSIVE MatchLen(_)
MatchLen(s) ==
    IF s = <<>> THEN 0
    ELSE IF s[1] \notin {" ", DQ, SQ} THEN 1 + MatchLen(Tail(s))
    ELSE IF s[1] \in {DQ, SQ} /\ \E j \in 2..Len(s) : s[j] = s[1]
    THEN LET j == CHOOSE j \in 2..Len(s) : s[j] = s[1] /\ \A i \in 2..(j-1) : s[i] # s[1]
         IN j + MatchLen(SubSeq(s, j + 1, Len(s)))
    ELSE 0

\* command.match(/(?:[^\s"']+|"[^"]*"|'[^']*')+/g) || []
RECURSIVE MatchAll(_)
MatchAll(s) ==
    IF s = <<>> THEN <<>>
    ELSE LET n == MatchLen(s) IN
         IF n = 0 THEN MatchAll(Tail(s))
         ELSE <<SubSeq(s, 1, n)>> \o MatchAll(SubSeq(s, n + 1, Len(s)))

\* p.startsWith(prefix)
StartsWith(p, prefix) == Len(p) >= Len(prefix) /\ SubSeq(p, 1, Len(prefix)) = prefix

\* p.split(sep)
RECURSIVE SplitOn(_, _, _)
SplitOn(p, sep, cur) ==
    IF p = <<>> THEN <<cur>>
    ELSE IF Head(p) = sep THEN <<cur>> \o SplitOn(Tail(p), sep, <<>>)
         ELSE SplitOn(Tail(p), sep, Append(cur, Head(p)))

ParentFlag == <<"-", "-", "parent", "=">>

StripQuotesKeeps(c) == c

\* content.replace(/^"|"$/g, '')
StripQuotes(c) ==
    LET c1 == IF c # <<>> /\ c[1] = DQ THEN Tail(c) ELSE c
    IN IF c1 # <<>> /\ c1[Len(c1)] = DQ THEN SubSeq(c1, 1, Len(c1) - 1) ELSE c1

\* (content.match(/c/g) || []).length
Count(content, c) == Cardinality({i \in 1..Len(content) : content[i] = c})

\* the python verb's checks: the message of the SyntaxError, or "" when all pass
SyntaxCheck(content) ==
    IF Count(content, "(") # Count(content, ")") THEN "Unbalanced parentheses."
    ELSE IF Count(content, "{") # Count(content, "}") THEN "Unbalanced curly braces."
    ELSE IF Count(content, "[") # Count(content, "]") THEN "Unbalanced square brackets."
    ELSE IF Count(content, SQ) % 2 # 0 THEN "Unmatched single quotes."
    ELSE IF Count(content, DQ) % 2 # 0 THEN "Unmatched double quotes."
    ELSE ""

\* Object.keys(children) rendered for ls, in a fixed order
RECURSIVE Listing(_, _)
Listing(children, names) ==
    IF names = {} THEN <<>>
    ELSE LET n == CHOOSE x \in names : \A y \in names : Len(x) <= Len(y)
         IN <<n \o (IF children[n].type = "folder" THEN <<"/">> ELSE <<>>)>>
            \o Listing(children, names \ {n})

TermReturn(result, newVFS, newMindMap, filePathHandled, events, argVfs, argMindMap) ==
    [threw |-> FALSE, error |-> <<>>, result |-> result, newVFS |-> newVFS,
     newMindMap |-> newMindMap, filePathHandled |-> filePathHandled,
     events |-> events, argVfs |-> argVfs, argMindMap |-> argMindMap]

TermThrowReturnsText(error, argVfs, argMindMap) ==
    TermReturn(error, None, None, None, <<>>, argVfs, argMindMap)

TermThrow(error, argVfs, argMindMap) ==
    [threw |-> TRUE, error |-> error, result |-> <<>>, newVFS |-> None,
     newMindMap |-> None, filePathHandled |-> None,
     events |-> <<>>, argVfs |-> argVfs, argMindMap |-> argMindMap]

\* case 'write', once writeFileToVFS has ended as w
terminal_write(w, filepath, content, parentNodeId, vfs, mindMap, t) ==
    IF w.threw THEN TermThrow(w.error, w.argVfs, mindMap)
    ELSE
    IF parentNodeId # "" /\ parentNodeId \in NodeIds(mindMap)
    THEN
        LET last == SplitSlash(filepath, <<>>)[Len(SplitSlash(filepath, <<>>))]
            filename == IF last = <<>> THEN filepath ELSE last
            fileNodeId == "file_" \o Join(Sanitize(filename)) \o "_" \o ToString(t)
            plainNode == MkNode(fileNodeId, filename, "FILE_REFERENCE",
                                <<"Reference to file at path: ">> \o filepath,
                                "AGENT_ACTION", t)
            fileNode == [f \in DOMAIN plainNode \cup {"linkedFile"} |->
                            IF f = "linkedFile" THEN filepath ELSE plainNode[f]]
            link == MkLink(parentNodeId, fileNodeId, HIERARCHICAL, FileRefLinkStrength)
            newMindMap == JSONClone(ArgRef(mindMap))
            written == [newMindMap EXCEPT
                           !.val = [nodes |-> Append(newMindMap.val.nodes, fileNode),
                                    links |-> Append(newMindMap.val.links, link)]]
        IN TermReturn(<<"Wrote ", ToString(Len(content)), " chars to ">> \o filepath
                         \o <<" and created a reference in the mind map", ".",
                              "\n\n--- FILE CONTENT ---\n">> \o content,
                      Some(w.newVFS.val), Some(written.val), Some(filepath),
                      w.events \o <<StateChange("MIND_MAP", "CREATE_FILE_REFERENCE_NODE",
                                                [node |-> fileNode, link |-> link])>>,
                      w.argVfs, ArgAfter(mindMap, written))
    ELSE TermReturn(<<"Wrote ", ToString(Len(content)), " chars to ">> \o filepath
                       \o <<".", "\n\n--- FILE CONTENT ---\n">> \o content,
                    Some(w.newVFS.val), Some(mindMap), Some(filepath),
                    w.events, w.argVfs, mindMap)

terminal_mkdirLogsNewFolders(d, path, mindMap) ==
    IF d.threw THEN TermThrow(d.error, d.argVfs, mindMap)
    ELSE TermReturn(<<>>, Some(d.newVFS.val), None, None,
                    IF d.newVFS.val = d.argVfs THEN <<>>
                    ELSE <<StateChange("VFS", "MKDIR", [path |-> path])>>,
                    d.argVfs, mindMap)

\* case 'mkdir', once ensureDirectoryExists has ended as d
terminal_mkdir(d, path, mindMap) ==
    IF d.threw THEN TermThrow(d.error, d.argVfs, mindMap)
    ELSE TermReturn(<<>>, Some(d.newVFS.val), None, None,
                    <<StateChange("VFS", "MKDIR", [path |-> path])>>,
                    d.argVfs, mindMap)

terminal_touchUnlogged(w, filepath, mindMap) ==
    IF w.threw THEN TermThrow(w.error, w.argVfs, mindMap)
    ELSE TermReturn(<<>>, Some(w.newVFS.val), None, Some(filepath),
                    <<>>, w.argVfs, mindMap)

\* case 'touch', once writeFileToVFS has ended as w
terminal_touch(w, filepath, mindMap) ==
    IF w.threw THEN TermThrow(w.error, w.argVfs, mindMap)
    ELSE TermReturn(<<>>, Some(w.newVFS.val), None, Some(filepath),
                    w.events, w.argVfs, mindMap)

terminal_lsOfAnything(node, path, vfs, mindMap) ==
    IF node.type = "folder"
    THEN TermReturn(JoinWith(Listing(node.children, DOMAIN node.children), "\n"),
                    None, None, None, <<>>, vfs, mindMap)
    ELSE TermReturn(<<>>, None, None, None, <<>>, vfs, mindMap)

\* cases 'ls', 'cat' and 'python', once getNodeFromPath has returned node
terminal_ls(node, path, vfs, mindMap) ==
    IF node.type # "folder"
    THEN TermThrow(<<"ls: cannot access '">> \o path \o <<"': Not a directory">>, vfs, mindMap)
    ELSE TermReturn(JoinWith(Listing(node.children, DOMAIN node.children), "\n"),
                    None, None, None, <<>>, vfs, mindMap)

terminal_catReturnsTree(node, path, vfs, mindMap) ==
    IF node.type # "file"
    THEN TermThrow(<<"cat: ">> \o path \o <<": No such file or not a file">>, vfs, mindMap)
    ELSE TermReturn(node.content, Some(vfs), None, None, <<>>, vfs, mindMap)

terminal_cat(node, path, vfs, mindMap) ==
    IF node.type # "file"
    THEN TermThrow(<<"cat: ">> \o path \o <<": No such file or not a file">>, vfs, mindMap)
    ELSE TermReturn(node.content, None, None, None, <<>>, vfs, mindMap)

terminal_python(node, path, vfs, mindMap) ==
    IF node.type # "file"
    THEN TermThrow(<<"python: can't open file '">> \o path
                   \o <<"': No such file or not a file.">>, vfs, mindMap)
    ELSE IF SyntaxCheck(node.content) # ""
    THEN TermThrow(<<"Syntax Error in ">> \o path \o <<": ", SyntaxCheck(node.content)>>,
                   vfs, mindMap)
    ELSE TermReturn(<<"Syntax check for ">> \o path
                       \o <<" passed. Code appears valid. This is a simulation, not a real execution.">>,
                    None, None, None, <<>>, vfs, mindMap)

\* the switch over cmd; parentNodeId = "" stands for null and for the empty
\* string, both falsy
terminal_switch(cmd, args, parentNodeId, vfs, mindMap, t) ==
    CASE cmd = <<"ls">> ->
            IF args = <<>>
            THEN terminal_ls(getNodeFromPath(vfs, <<"/">>), <<"/">>, vfs, mindMap)
            ELSE terminal_ls(getNodeFromPath(vfs, args[1]), args[1], vfs, mindMap)
      [] cmd = <<"cat">> ->
            IF args = <<>> THEN TermThrow(<<"Usage: cat <path>">>, vfs, mindMap)
            ELSE terminal_cat(getNodeFromPath(vfs, args[1]), args[1], vfs, mindMap)
      [] cmd = <<"python">> ->
            IF args = <<>> THEN TermThrow(<<"Usage: python <path_to_script>">>, vfs, mindMap)
            ELSE terminal_python(getNodeFromPath(vfs, args[1]), args[1], vfs, mindMap)
      [] cmd = <<"write">> ->
            IF Len(args) < 2
            THEN TermThrow(<<"Usage: write <path> <content> [--parent=<node_id>]">>, vfs, mindMap)
            ELSE terminal_write(
                    writeFileToVFS(vfs, args[1], StripQuotes(JoinWith(Tail(args), " "))),
                    args[1], StripQuotes(JoinWith(Tail(args), " ")),
                    parentNodeId, vfs, mindMap, t)
      [] cmd = <<"mkdir">> ->
            IF Len(args) < 1 THEN TermThrow(<<"Usage: mkdir <path>">>, vfs, mindMap)
            ELSE terminal_mkdir(ensureDirectoryExists(vfs, args[1]), args[1], mindMap)
      [] cmd = <<"touch">> ->
            IF Len(args) < 1 THEN TermThrow(<<"Usage: touch <path>">>, vfs, mindMap)
            ELSE terminal_touch(writeFileToVFS(vfs, args[1], <<>>), args[1], mindMap)
      [] OTHER -> TermThrow(<<"Unknown command: ">> \o cmd, vfs, mindMap)

\* flags[parentArgIndex].split('=')[1], or "" when no flag starts with --parent=
ParentNodeId(flags) ==
    IF \E i \in 1..Len(flags) : StartsWith(flags[i], ParentFlag)
    THEN Join(SplitOn(flags[FindIndex(flags, {f \in Range(flags) : StartsWith(f, ParentFlag)})],
                      "=", <<>>)[2])
    ELSE ""

\* run_terminal_command after the command line has been matched into parts
terminal_parsed(parts, vfs, mindMap, t) ==
    terminal_switch(IF parts = <<>> THEN <<"undefined">> ELSE parts[1],
                    SelectSeq(Tail(parts), LAMBDA p : ~StartsWith(p, <<"-">>)),
                    ParentNodeId(SelectSeq(parts, LAMBDA p : StartsWith(p, <<"-">>))),
                    vfs, mindMap, t)

run_terminal_command(command, vfs, mindMap, t) ==
    terminal_parsed(MatchAll(command), vfs, mindMap, t)

\* ---------------------------------------------------------- dispatcher
\* ToolResult
ToolResult(result) ==
    [result |-> result, newMindMapData |-> None, newVirtualFileSystem |-> None,
     terminalOutput |-> None, filePathHandled |-> None, extra |-> None]

\* How running a handler inside executeTool's try block ended: by a value
\* (toolResult) or by a throw (error), with the STATE_CHANGE events it logged
\* and the state of the two snapshot objects it was given.
HReturn(toolResult, events, argMindMap, argVfs) ==
    [threw |-> FALSE, error |-> <<>>, toolResult |-> toolResult, events |-> events,
     argMindMap |-> argMindMap, argVfs |-> argVfs]

HThrow(error, events, argMindMap, argVfs) ==
    [threw |-> TRUE, error |-> error, toolResult |-> ToolResult(<<>>), events |-> events,
     argMindMap |-> argMindMap, argVfs |-> argVfs]

Returned(h) == [kind |-> "return", h |-> h, agentName |-> ""]
Awaiting(agentName) == [kind |-> "await", h |-> HThrow(<<>>, <<>>, <<>>, <<>>), agentName |-> agentName]

NotInitialized == <<"Executor AI client not initialized.">>
GeminiNotInitialized == <<"Gemini AI client not initialized.">>
ArgsUndefined == <<"Cannot read properties of undefined">>

\* tools whose case reads a property of toolCall.args before anything else
ReadsArgs == {"search_the_web", "delegate_to_psychology_sub_agent", "run_terminal_command",
              "get_node_details", "recall_memory", "upsert_mind_map_node",
              "create_mind_map_link", "synthesize_knowledge", "transcend",
              "generate_image", "edit_image", "commit_changes", "update_task_status"}

GraphToolResult(r) ==
    [ToolResult(r.result) EXCEPT !.newMindMapData = r.newMindMapData]

\* [...chatHistory].reverse().find(msg => msg.image)
LastImageMsg(chatHistory) ==
    LET idx == {i \in 1..Len(chatHistory) : chatHistory[i].image # None}
    IN IF idx = {} THEN None
       ELSE Some(chatHistory[CHOOSE i \in idx : \A j \in idx : j <= i])

\* prefilterResponse.text.trim().split(',').map(id => id.trim()).filter(Boolean)
RelevantNodeIds(text) ==
    LET pieces == SplitOn(Trim(text), ",", <<>>)
    IN SelectSeq([i \in 1..Len(pieces) |-> Trim(pieces[i])], LAMBDA x : x # <<>>)

\* case 'run_terminal_command', once the handler has ended as r
FromTerminal(r) ==
    IF r.threw THEN Returned(HThrow(r.error, r.events, r.argMindMap, r.argVfs))
    ELSE Returned(HReturn(
            [ToolResult(r.result) EXCEPT
                !.newVirtualFileSystem = r.newVFS,
                !.newMindMapData = r.newMindMap,
                !.terminalOutput = Some([type |-> "output", text |-> r.result]),
                !.filePathHandled = r.filePathHandled],
            r.events, r.argMindMap, r.argVfs))

\* the cases whose handler returns {newMindMapData, result}, once it has ended as r
FromGraphHandler(r, vfs) ==
    IF r.threw THEN Returned(HThrow(r.error, r.events, r.argMindMap, vfs))
    ELSE Returned(HReturn(GraphToolResult(r), r.events, r.argMindMap, vfs))

\* the cases that save a file, once writeFileToVFS has ended as w
FromFileWrite(w, result, terminalOutput, filepath, mindMap) ==
    IF w.threw THEN Returned(HThrow(w.error, w.events, mindMap, w.argVfs))
    ELSE Returned(HReturn(
            [ToolResult(result) EXCEPT !.newVirtualFileSystem = Some(w.newVFS.val),
                                       !.terminalOutput = terminalOutput,
                                       !.filePathHandled = Some(filepath)],
            w.events, mindMap, w.argVfs))

\* `/logs/chat/chat_log_${timestamp}.md`
ChatLogPath(t) == <<"/", "logs", "/", "chat", "/", "chat_log_", ToString(t), ".", "md">>

\* `/reports/psychology/${agentName}_${timestamp}.md`
ReportPath(agentName, t) ==
    <<"/", "reports", "/", "psychology", "/", agentName, "_", ToString(t), ".", "md">>

UnknownToolThrows(name, mindMap, vfs) ==
    Returned(HThrow(<<"Unknown tool: ", name>>, <<>>, mindMap, vfs))

\* default: toolResult = { result: `Unknown tool: ${name}` }
UnknownTool(name, mindMap, vfs) ==
    Returned(HReturn(ToolResult(<<"Unknown tool: ", name>>), <<>>, mindMap, vfs))

\* executeTool from its entry to the first await of the handler, or to the end
\* of the switch when the handler does not await
executeTool_begin(name, a, mindMap, vfs, vectorStore, chatHistory, t, aiReady) ==
    LET args == a[1]
        Throw(e) == Returned(HThrow(e, <<>>, mindMap, vfs))
        Value(r) == Returned(HReturn(r, <<>>, mindMap, vfs))
    IN
    IF name \in ReadsArgs /\ a = None THEN Throw(ArgsUndefined)
    ELSE
    CASE name = "search_the_web" ->
            IF ~aiReady THEN Throw(NotInitialized)
            ELSE Awaiting("Persona Agent (Tool: search_the_web)")
      [] name = "delegate_to_psychology_sub_agent" ->
            Awaiting(args.agent_name)
      [] name = "run_terminal_command" ->
            FromTerminal(run_terminal_command(args.command, vfs, mindMap, t))
      [] name = "get_node_details" ->
            Value(ToolResult(get_node_details(args.node_id, mindMap)))
      [] name = "recall_memory" ->
            IF ~aiReady THEN Throw(NotInitialized)
            ELSE IF vectorStore = <<>> THEN Value(ToolResult(<<"Memory archive is empty.">>))
            ELSE Awaiting("Persona Agent (Tool: recall_memory)")
      [] name = "upsert_mind_map_node" ->
            FromGraphHandler(upsert_mind_map_node(args, mindMap, t), vfs)
      [] name = "create_mind_map_link" ->
            FromGraphHandler(create_mind_map_link(args, mindMap), vfs)
      [] name = "synthesize_knowledge" ->
            IF ~aiReady THEN Throw(NotInitialized)
            ELSE IF Len(mindMap.nodes) = 0
            THEN Value(ToolResult(<<"The knowledge graph is empty. Nothing to synthesize.">>))
            ELSE Awaiting("Persona Agent (Tool: synthesize_knowledge/pre-filter)")
      [] name = "refine_mind_map" ->
            IF ~aiReady THEN Throw(NotInitialized)
            ELSE Awaiting("Persona Agent (Tool: refine_mind_map)")
      [] name = "transcend" ->
            IF ~aiReady THEN Throw(NotInitialized)
            ELSE Awaiting("Persona Agent (Tool: transcend)")
      [] name = "generate_image" ->
            IF ~aiReady THEN Throw(GeminiNotInitialized)
            ELSE Awaiting("Image Generation Service")
      [] name = "edit_image" ->
            IF LastImageMsg(chatHistory) = None
            THEN Value(ToolResult(<<"Error: No image found in the recent conversation to edit.">>))
            ELSE IF ~aiReady THEN Throw(GeminiNotInitialized)
            ELSE Awaiting("Image Editing Service")
      [] name = "commit_changes" ->
            Value([ToolResult(<<"Changes are staged for commit with message: ">> \o args.commit_message)
                   EXCEPT !.extra = Some([commitMessage |-> args.commit_message])])
      [] name = "update_task_status" ->
            Value([ToolResult(<<"Task ", args.task_id, " status will be updated to ", args.status>>)
                   EXCEPT !.extra = Some([taskStatusUpdate |->
                                            [taskId |-> args.task_id, status |-> args.status]])])
      [] name = "save_chat_history" ->
            IF Len(chatHistory) = 0
            THEN Value(ToolResult(<<"Chat history is empty. Nothing to save.">>))
            ELSE FromFileWrite(writeFileToVFS(vfs, ChatLogPath(t), <<"# Chat Log">>),
                               <<"Chat history successfully saved to virtual file system at: ">>
                                   \o ChatLogPath(t),
                               None, ChatLogPath(t), mindMap)
      [] OTHER -> UnknownTool(name, mindMap, vfs)

NothingRelevant(topic) ==
    <<"No specific nodes in the knowledge graph were identified as relevant to the topic ", DQ>>
        \o topic \o <<DQ, ".">>

synthesize_resumeAlwaysSynthesizes(stage, outcome, topic, mindMap, vfs) ==
    IF ~outcome.ok THEN Returned(HThrow(outcome.error, <<>>, mindMap, vfs))
    ELSE IF outcome.response.text = None THEN Returned(HThrow(ArgsUndefined, <<>>, mindMap, vfs))
    ELSE IF stage = 1
    THEN Awaiting("Persona Agent (Tool: synthesize_knowledge/synthesis)")
    ELSE Returned(HReturn(ToolResult(Trim(outcome.response.text[1])), <<>>, mindMap, vfs))

synthesize_resumeIgnoresRejection(stage, outcome, topic, mindMap, vfs) ==
    IF ~outcome.ok /\ stage = 1
    THEN Awaiting("Persona Agent (Tool: synthesize_knowledge/synthesis)")
    ELSE IF ~outcome.ok THEN Returned(HThrow(outcome.error, <<>>, mindMap, vfs))
    ELSE IF outcome.response.text = None THEN Returned(HThrow(ArgsUndefined, <<>>, mindMap, vfs))
    ELSE IF stage = 1
    THEN IF Len(RelevantNodeIds(outcome.response.text[1])) = 0
         THEN Returned(HReturn(ToolResult(NothingRelevant(topic)), <<>>, mindMap, vfs))
         ELSE Awaiting("Persona Agent (Tool: synthesize_knowledge/synthesis)")
    ELSE Returned(HReturn(ToolResult(Trim(outcome.response.text[1])), <<>>, mindMap, vfs))

\* synthesize_knowledge from the settling of its request at `stage` (1: the
\* pre-filter of line 600, 2: the synthesis of line 638) to its next await or
\* its end; a rejected request throws out of the await
synthesize_resume(stage, outcome, topic, mindMap, vfs) ==
    IF ~outcome.ok THEN Returned(HThrow(outcome.error, <<>>, mindMap, vfs))
    ELSE IF outcome.response.text = None THEN Returned(HThrow(ArgsUndefined, <<>>, mindMap, vfs))
    ELSE IF stage = 1
    THEN IF Len(RelevantNodeIds(outcome.response.text[1])) = 0
         THEN Returned(HReturn(ToolResult(NothingRelevant(topic)), <<>>, mindMap, vfs))
         ELSE Awaiting("Persona Agent (Tool: synthesize_knowledge/synthesis)")
    ELSE Returned(HReturn(ToolResult(Trim(outcome.response.text[1])), <<>>, mindMap, vfs))

\* executeTool from the settling of the request awaited at `stage` to the next
\* await or to the end of the switch.  outcome.ok = FALSE: enqueueGeminiRequest
\* rejected with outcome.error.  times: Date.now() at each refine operation.
executeTool_resume(name, stage, a, outcome, mindMap, vfs, t, times) ==
    LET args == a[1]
        response == outcome.response
        Throw(e) == Returned(HThrow(e, <<>>, mindMap, vfs))
        Value(r) == Returned(HReturn(r, <<>>, mindMap, vfs))
    IN
    IF ~outcome.ok /\ name # "synthesize_knowledge" THEN Throw(outcome.error)
    ELSE
    CASE name = "search_the_web" ->
            IF response.text = None THEN Throw(ArgsUndefined)
            ELSE Value(ToolResult(<<"Web search results for ">> \o args.query \o <<":">>
                                  \o Trim(response.text[1])))
      [] name = "recall_memory" ->
            IF response.text = None THEN Throw(ArgsUndefined)
            ELSE Value(ToolResult(Trim(response.text[1])))
      [] name = "delegate_to_psychology_sub_agent" ->
            FromFileWrite(writeFileToVFS(vfs, ReportPath(args.agent_name, t),
                                         Nullish(response.text, <<"undefined">>)),
                          <<"Analysis from ", args.agent_name,
                            " complete. Report has been saved to the virtual file system at: ">>
                              \o ReportPath(args.agent_name, t),
                          Some([type |-> "output",
                                text |-> <<"Sub-agent report saved to ">>
                                             \o ReportPath(args.agent_name, t)]),
                          ReportPath(args.agent_name, t), mindMap)
      [] name = "synthesize_knowledge" ->
            synthesize_resume(stage, outcome, args.topic, mindMap, vfs)
      [] name = "refine_mind_map" ->
            FromGraphHandler(refine_resume(response, mindMap, t, times), vfs)
      [] name = "transcend" ->
            FromGraphHandler(transcend_resume(args.inquiry, response, mindMap, t), vfs)
      [] name = "generate_image" ->
            IF response.inlineData = None THEN Throw(<<"API did not return an image.">>)
            ELSE Value([ToolResult(<<"Image generated successfully based on prompt: ">> \o args.prompt)
                        EXCEPT !.extra = Some([generatedImage |->
                                                 [data |-> response.inlineData[1], type |-> "generated"]])])
      [] name = "edit_image" ->
            IF response.inlineData = None THEN Throw(<<"API did not return an edited image.">>)
            ELSE Value([ToolResult(<<"Image edited successfully based on prompt: ">> \o args.prompt)
                        EXCEPT !.extra = Some([generatedImage |->
                                                 [data |-> response.inlineData[1], type |-> "edited"]])])
      [] OTHER -> Throw(<<"unreachable">>)

FailureMarker == "FAILED: "

AgentAction(name, a, result) ==
    [type |-> "AGENT_ACTION", toolName |-> name, args |-> a, result |-> result]

executeTool_endRethrows(name, a, h) ==
    IF ~h.threw
    THEN [rethrown |-> FALSE, toolResult |-> Some(h.toolResult),
          log |-> <<AgentAction(name, a, h.toolResult.result)>>]
    ELSE [rethrown |-> TRUE, toolResult |-> None,
          log |-> <<AgentAction(name, a, <<FailureMarker>> \o h.error)>>]

executeTool_endKeepsSnapshots(name, a, h) ==
    IF ~h.threw
    THEN [rethrown |-> FALSE, toolResult |-> Some(h.toolResult),
          log |-> <<AgentAction(name, a, h.toolResult.result)>>]
    ELSE [rethrown |-> FALSE,
          toolResult |-> Some([ToolResult(<<"Tool ", name, " failed to execute. Error: ">> \o h.error)
                               EXCEPT !.newMindMapData = Some(h.argMindMap),
                                      !.newVirtualFileSystem = Some(h.argVfs)]),
          log |-> <<AgentAction(name, a, <<FailureMarker>> \o h.error)>>]

executeTool_endUnlogged(name, a, h) ==
    IF ~h.threw
    THEN [rethrown |-> FALSE, toolResult |-> Some(h.toolResult), log |-> <<>>]
    ELSE [rethrown |-> FALSE,
          toolResult |-> Some(ToolResult(<<"Tool ", name, " failed to execute. Error: ">> \o h.error)),
          log |-> <<AgentAction(name, a, <<FailureMarker>> \o h.error)>>]

\* the end of executeTool: the statements after the switch, or the catch block
executeTool_end(name, a, h) ==
    IF ~h.threw
    THEN [rethrown |-> FALSE, toolResult |-> Some(h.toolResult),
          log |-> <<AgentAction(name, a, h.toolResult.result)>>]
    ELSE LET friendlyMessage == <<"Tool ", name, " failed to execute. Error: ">> \o h.error
         IN [rethrown |-> FALSE,
             toolResult |-> Some([ToolResult(friendlyMessage) EXCEPT
                                     !.terminalOutput = Some([type |-> "error",
                                                              text |-> friendlyMessage])]),
             log |-> <<AgentAction(name, a, <<FailureMarker>> \o h.error)>>]

\* ------------------------------------------------------- request queue
\* enqueueGeminiRequest: the entry it records when the request is submitted
Pending(agentName) == [agentName |-> agentName, status |-> "Pending", error |-> <<>>]

SettledStaysInFlight(entry, outcome) == entry

SettledAlwaysSucceeded(entry, outcome) == [entry EXCEPT !.status = "Succeeded"]

\* ... and the entry once the request has settled
Settled(entry, outcome) ==
    [entry EXCEPT !.status = IF outcome.ok THEN "Succeeded" ELSE "Failed",
                  !.error = outcome.error]

\* ------------------------------------------------------ initial state
InitialMindMap ==
    [nodes |-> << MkNode(PersonaRootId, <<"P">>, "CORE_PERSONA", <<"p">>, "INITIAL_ANALYSIS", 0),
                  MkNode("trait_a", <<"A">>, "KEY_TRAIT", <<"a">>, "INITIAL_ANALYSIS", 0),
                  MkNode("trait_b", <<"B">>, "KEY_TRAIT", <<"b">>, "INITIAL_ANALYSIS", 0) >>,
     links |-> << MkLink(PersonaRootId, "trait_a", HIERARCHICAL, 9),
                  MkLink("trait_a", "trait_b", HIERARCHICAL, 9) >>]

NoCall ==
    [n |-> 0, name |-> "", args |-> None, state |-> "None", stage |-> 0, threw |-> FALSE,
     rethrown |-> FALSE, error |-> <<>>, outcome |-> None, toolResult |-> None,
     mindMapIn |-> InitialMindMap, vfsIn |-> <<>>,
     argMindMap |-> InitialMindMap, argVfs |-> <<>>,
     logStart |-> 0, queueStart |-> 0]

Init ==
    /\ mindMapData = InitialMindMap
    /\ vfsData = <<>>
    /\ auditLog = <<>>
    /\ apiCallLogs = <<>>
    /\ clock = 0
    /\ ai \in BOOLEAN
    /\ pc = "idle"
    /\ call = NoCall

\* auditLogService.logEvent, for each of the events in turn
logEventRewrites(log, events) == events

logEvent(log, events) == log \o events

\* ---------------------------------------------------------- actions
\* The caller of executeTool replaces its current snapshots by the ones the
\* envelope carries; without an envelope, or without a snapshot in it, it
\* keeps the objects it passed in.
Commit(fin, h) ==
    /\ mindMapData' = IF fin.toolResult # None /\ fin.toolResult[1].newMindMapData # None
                      THEN fin.toolResult[1].newMindMapData[1] ELSE h.argMindMap
    /\ vfsData' = IF fin.toolResult # None /\ fin.toolResult[1].newVirtualFileSystem # None
                  THEN fin.toolResult[1].newVirtualFileSystem[1] ELSE h.argVfs

\* executeTool runs to its end with handler outcome h
Finish(c, h) ==
    LET fin == executeTool_end(c.name, c.args, h) IN
    /\ auditLog' = logEvent(auditLog, h.events \o fin.log)
    /\ call' = [c EXCEPT !.state = IF fin.rethrown THEN "Rethrown"
                                   ELSE IF h.threw THEN "Failed" ELSE "Succeeded",
                         !.threw = h.threw,
                         !.rethrown = fin.rethrown,
                         !.error = h.error,
                         !.toolResult = fin.toolResult,
                         !.argMindMap = h.argMindMap,
                         !.argVfs = h.argVfs]
    /\ pc' = "idle"
    /\ Commit(fin, h)

\* executeTool suspends on enqueueGeminiRequest
Suspend(c, agentName) ==
    /\ apiCallLogs' = Append(apiCallLogs, Pending(agentName))
    /\ call' = [c EXCEPT !.state = "Executing", !.stage = c.stage + 1]
    /\ pc' = "awaiting"
    /\ UNCHANGED <<mindMapData, vfsData, auditLog>>

\* executeTool(modelName, {name, args}, mindMapData, vfs, vectorStore, personaDescription, chatHistory)
Invoke(name, a, vectorStore, chatHistory) ==
    /\ pc = "idle"
    /\ call.n < MaxCalls
    /\ LET c == [NoCall EXCEPT !.n = call.n + 1, !.name = name, !.args = a,
                               !.state = "Executing",
                               !.mindMapIn = mindMapData, !.vfsIn = vfsData,
                               !.argMindMap = mindMapData, !.argVfs = vfsData,
                               !.logStart = Len(auditLog), !.queueStart = Len(apiCallLogs)]
           b == executeTool_begin(name, a, mindMapData, vfsData, vectorStore, chatHistory, clock, ai)
       IN IF b.kind = "await"
          THEN Suspend(c, b.agentName)
          ELSE Finish(c, b.h) /\ UNCHANGED apiCallLogs
    /\ UNCHANGED <<clock, ai>>

\* the awaited request settles with `outcome` and executeTool continues
Settle(outcome, times) ==
    /\ pc = "awaiting"
    /\ LET b == executeTool_resume(call.name, call.stage, call.args, outcome,
                                   mindMapData, vfsData, clock, times)
           settledLogs == [apiCallLogs EXCEPT ![Len(apiCallLogs)] = Settled(@, outcome)]
       IN IF b.kind = "await"
          THEN /\ apiCallLogs' = Append(settledLogs, Pending(b.agentName))
               /\ call' = [call EXCEPT !.stage = call.stage + 1, !.outcome = Some(outcome)]
               /\ pc' = "awaiting"
               /\ UNCHANGED <<mindMapData, vfsData, auditLog>>
          ELSE /\ apiCallLogs' = settledLogs
               /\ Finish([call EXCEPT !.outcome = Some(outcome)], b.h)
    /\ clock' = IF times = <<>> THEN clock ELSE times[Len(times)]
    /\ UNCHANGED ai

\* ------------------------------------------------------------ inputs
\* ids a caller may name: the first, second and last node of the graph, and
\* an id no node has
Ghost == "ghost"
NthId(g, i) == IF i <= Len(g.nodes) THEN g.nodes[i].id ELSE Ghost
LastId(g) == IF Len(g.nodes) > 0 THEN g.nodes[Len(g.nodes)].id ELSE Ghost

Names == {<<"X">>, <<"a", " ", "b">>}

UpsertArg(node_id, name, parent_node_id) ==
    [node_id |-> node_id, name |-> name, content |-> Some(<<"c">>),
     node_type |-> Some("KNOWLEDGE_CONCEPT"), parent_node_id |-> parent_node_id]

UpsertCreateArgs(g) ==
    {UpsertArg("", Some(nm), PersonaRootId) : nm \in Names}
    \cup {UpsertArg("", Some(<<"X">>), LastId(g)), UpsertArg("", None, PersonaRootId),
          UpsertArg("", Some(<<"X">>), Ghost), UpsertArg("", Some(<<"X">>), "")}

UpsertUpdateArgs(g) ==
    {UpsertArg(LastId(g), Some(<<"X">>), ""), UpsertArg(LastId(g), None, PersonaRootId),
     UpsertArg(NthId(g, 2), None, LastId(g)), UpsertArg(NthId(g, 2), None, Ghost),
     UpsertArg(Ghost, Some(<<"X">>), PersonaRootId)}

LinkArg(s, t, type) == [source_node_id |-> s, target_node_id |-> t, link_type |-> type]

LinkArgs(g) ==
    {LinkArg(NthId(g, 2), LastId(g), RELATED), LinkArg(LastId(g), PersonaRootId, RELATED),
     LinkArg(PersonaRootId, LastId(g), HIERARCHICAL),
     LinkArg(Ghost, PersonaRootId, RELATED), LinkArg(PersonaRootId, Ghost, RELATED)}

CmdLs == <<"ls">>
CmdLsNotes == <<"ls", " ", "/", "notes">>
CmdCat == <<"cat">>
CmdCatFile == <<"cat", " ", "/", "notes", "/", "a", ".", "txt">>
CmdWriteParent == <<"write", " ", "/", "notes", "/", "a", ".", "txt", " ", DQ, "hello", " ", "world", DQ, " ", "-", "-", "parent", "=", "Persona", "_", "Core">>
CmdWriteGhost == <<"write", " ", "/", "notes", "/", "a", ".", "txt", " ", DQ, "(", "hi", DQ, " ", "-", "-", "parent", "=", "ghost">>
CmdWriteNotes == <<"write", " ", "/", "notes", " ", "x">>
CmdWriteUsage == <<"write", " ", "/", "notes", "/", "a", ".", "txt">>
CmdWriteRoot == <<"write", " ", "/", " ", "x">>
CmdMkdir == <<"mkdir", " ", "/", "notes", "/", "sub">>
CmdMkdirUsage == <<"mkdir">>
CmdTouch == <<"touch", " ", "/", "notes", "/", "a", ".", "txt">>
CmdTouchUsage == <<"touch">>
CmdPython == <<"python", " ", "/", "notes", "/", "a", ".", "txt">>
CmdPythonUsage == <<"python">>
CmdUnknown == <<"rm", " ", "/", "notes">>
CmdEmpty == <<>>
CmdWriteMarker == <<"write", " ", "/", "notes", "/", "a", ".", "txt", " ", DQ, "FAILED: ", "x", DQ>>

Commands ==
    {CmdLs,
     CmdWriteMarker,
     CmdLsNotes,
     CmdCat,
     CmdCatFile,
     CmdWriteParent,
     CmdWriteGhost,
     CmdWriteNotes,
     CmdWriteUsage,
     CmdWriteRoot,
     CmdMkdir,
     CmdMkdirUsage,
     CmdTouch,
     CmdTouchUsage,
     CmdPython,
     CmdPythonUsage,
     CmdUnknown,
     CmdEmpty}

MergeOp(ids) ==
    [operation |-> "MERGE_NODES", nodes_to_merge |-> ids,
     merged_node_name |-> <<"M">>, merged_node_content |-> <<"m">>]
UpdateOp(id) ==
    [operation |-> "UPDATE_NODE_CONTENT", node_id_to_update |-> id, new_content |-> <<"r">>]
RelinkOp(id, parent) ==
    [operation |-> "RELINK_NODE", node_to_relink |-> id, new_parent_id |-> parent]

\* the operations combined into longer lists: a run of the same merge, which
\* an operation of CoreOps ends
CoreMerge(g) == MergeOp(Some(<<NthId(g, 2), LastId(g)>>))

CoreOps(g) == {CoreMerge(g), RelinkOp(NthId(g, 2), LastId(g))}

SingleOps(g) ==
    CoreOps(g) \cup
    {MergeOp(Some(<<PersonaRootId, Ghost>>)), MergeOp(Some(<<PersonaRootId, NthId(g, 2)>>)),
     MergeOp(Some(<<LastId(g)>>)), MergeOp(None),
     UpdateOp(LastId(g)), UpdateOp(Ghost),
     RelinkOp(LastId(g), PersonaRootId), RelinkOp(LastId(g), Ghost)}

RECURSIVE OpLists(_, _)
OpLists(g, n) ==
    IF n = 0 THEN {<<>>}
    ELSE IF n = 1 THEN {<<o>> : o \in SingleOps(g)}
    ELSE {Append(l, o) : l \in {x \in OpLists(g, n - 1) :
                                   \A i \in 1..Len(x) : x[i] = CoreMerge(g)},
                         o \in CoreOps(g)}

Rejected == [ok |-> FALSE, error |-> <<"upstream rejected the request">>,
             response |-> [text |-> None, inlineData |-> None]]
Resolved(response) == [ok |-> TRUE, error |-> <<>>, response |-> response]
TextResponse(x) == [text |-> Some(x), inlineData |-> None]
NoTextResponse == [text |-> None, inlineData |-> None]
ImageResponse == [text |-> None, inlineData |-> Some("base64")]

\* what the generative service may answer to the request awaited by the call
Outcomes(name, stage, g) ==
    {Rejected} \cup
    CASE name = "refine_mind_map" ->
            {Resolved(TextResponse([json |-> "invalid", operations |-> <<>>]))} \cup
            {Resolved(TextResponse([json |-> "object", operations |-> ops])) :
                ops \in UNION {OpLists(g, n) : n \in 0..MaxOps}}
      [] name = "synthesize_knowledge" /\ stage = 1 ->
            {Resolved(TextResponse(<<" ">>)),
             Resolved(TextResponse(<<" ", PersonaRootId, ",", " ", Ghost, ",">>))}
      [] name = "generate_image" ->
            {Resolved(ImageResponse), Resolved(NoTextResponse)}
      [] name = "delegate_to_psychology_sub_agent" ->
            {Resolved(TextResponse(<<"report">>))}
      [] name = "edit_image" ->
            {Resolved(ImageResponse)}
      [] name \in {"search_the_web", "transcend"} ->
            {Resolved(TextResponse(<<" ", "answer">>)), Resolved(NoTextResponse)}
      [] OTHER ->
            {Resolved(TextResponse(<<" ", "answer">>))}

\* Date.now() at each of n refine operations: the first one runs at the
\* instant the request settles, and the clock never goes back
Times(n) ==
    {ts \in [1..n -> clock..MaxClock] :
        /\ n > 0 => ts[1] = clock
        /\ \A i \in 1..n : \A j \in i..n : ts[i] <= ts[j]}

ChatHistories ==
    {<<>>, <<[sender |-> "user", image |-> None]>>,
     <<[sender |-> "user", image |-> Some("data:image/png;base64,AAAA")]>>}

VectorStores == {<<>>, <<"memory">>}

\* -------------------------------------------------- one action per tool
search_the_web ==
    Invoke("search_the_web", Some([query |-> <<"q">>]), <<>>, <<>>)

delegate_to_psychology_sub_agent ==
    Invoke("delegate_to_psychology_sub_agent",
           Some([agent_name |-> "Cognitive", task_prompt |-> <<"t">>]), <<>>, <<>>)

terminal_command ==
    \E command \in Commands :
        Invoke("run_terminal_command", Some([command |-> command]), <<>>, <<>>)

node_details ==
    \E a \in {None, Some([node_id |-> PersonaRootId]), Some([node_id |-> Ghost])} :
        Invoke("get_node_details", a, <<>>, <<>>)

recall_memory ==
    \E vectorStore \in VectorStores :
        Invoke("recall_memory", Some([query |-> <<"q">>]), vectorStore, <<>>)

upsert_create ==
    \E args \in UpsertCreateArgs(mindMapData) :
        Invoke("upsert_mind_map_node", Some(args), <<>>, <<>>)

upsert_update ==
    \E args \in UpsertUpdateArgs(mindMapData) :
        Invoke("upsert_mind_map_node", Some(args), <<>>, <<>>)

create_link ==
    \E args \in LinkArgs(mindMapData) :
        Invoke("create_mind_map_link", Some(args), <<>>, <<>>)

synthesize_knowledge ==
    Invoke("synthesize_knowledge", Some([topic |-> <<"topic">>]), <<>>, <<>>)

refine_mind_map ==
    Invoke("refine_mind_map", None, <<>>, <<>>)

transcend ==
    Invoke("transcend", Some([inquiry |-> <<"why">>]), <<>>, <<>>)

generate_image ==
    Invoke("generate_image", Some([prompt |-> <<"p">>]), <<>>, <<>>)

edit_image ==
    \E chatHistory \in ChatHistories :
        Invoke("edit_image", Some([prompt |-> <<"p">>]), <<>>, chatHistory)

commit_changes ==
    Invoke("commit_changes", Some([commit_message |-> <<"msg">>]), <<>>, <<>>)

update_task_status ==
    Invoke("update_task_status", Some([task_id |-> "task_1", status |-> "completed"]), <<>>, <<>>)

save_chat_history ==
    \E chatHistory \in ChatHistories :
        Invoke("save_chat_history", None, <<>>, chatHistory)

unknown_tool ==
    \E a \in {None, Some([x |-> 1])} :
        Invoke("launch_rocket", a, <<>>, <<>>)

\* the request the suspended call awaits settles
RequestSettles ==
    /\ pc = "awaiting"
    /\ \E outcome \in Outcomes(call.name, call.stage, mindMapData) :
         \E times \in (IF call.name = "refine_mind_map" /\ outcome.ok
                            /\ outcome.response.text[1].json = "object"
                        THEN Times(Len(outcome.response.text[1].operations))
                        ELSE {<<>>}) :
            Settle(outcome, times)

\* a millisecond passes, while a call is suspended or another may be issued
Tick ==
    /\ clock < MaxClock
    /\ pc = "awaiting" \/ call.n < MaxCalls
    /\ clock' = clock + 1
    /\ UNCHANGED <<mindMapData, vfsData, auditLog, apiCallLogs, ai, pc, call>>

Next ==
    \/ search_the_web
    \/ delegate_to_psychology_sub_agent
    \/ terminal_command
    \/ node_details
    \/ recall_memory
    \/ upsert_create
    \/ upsert_update
    \/ create_link
    \/ synthesize_knowledge
    \/ refine_mind_map
    \/ transcend
    \/ generate_image
    \/ edit_image
    \/ commit_changes
    \/ update_task_status
    \/ save_chat_history
    \/ unknown_tool
    \/ RequestSettles
    \/ Tick

Spec == Init /\ [][Next]_vars

\* The same program when every request a call awaits is settled in the end:
\* weak fairness of RequestSettles, WF_vars(RequestSettles), written out with
\* the state predicate that ENABLED <<RequestSettles>>_vars amounts to (a
\* request is awaited, and Outcomes is never empty).
RequestsSettle == []<>(pc # "awaiting") \/ []<><<RequestSettles>>_vars

SpecFair == Spec /\ RequestsSettle

\* ------------------------------------------- the path helpers alone
\* The four VFS helpers (lines 226-279) applied one after the other to the
\* tree, starting from the empty one.  A path is given as its segments and
\* the way they are written down.
MaxVfsSteps == 3

Segments == {<<"a">>, <<"b", ".", "txt">>, <<".", ".">>, <<"constructor">>}

SegmentLists == {<<>>} \cup {<<x>> : x \in Segments} \cup {<<x, y>> : x, y \in Segments}

\* the segment lists the tree operations are given
TreeSegmentLists ==
    { <<>>,
      <<<<"a">>>>,
      <<<<"a">>, <<"b", ".", "txt">>>>,
      <<<<"a">>, <<"b", ".", "txt">>, <<"c">>>>,
      <<<<".", ".">>, <<"a">>>>,
      <<<<"constructor">>>> }

\* the segment lists a write is given: a second name in folder a as well
WriteSegmentLists == TreeSegmentLists \cup {<<<<"a">>, <<"c">>>>}

Styles == {"plain", "leading", "trailing", "repeated", "dots"}

TreeStyles == {"leading", "dots"}

\* the ways the path of a write is written down
WriteStyles(segs) ==
    IF segs = <<>> THEN {"plain", "leading", "dots"}
    ELSE IF Len(segs) = 2 /\ segs[1] = <<"a">> THEN {"leading", "dots"}
    ELSE {"leading"}

Contents == {<<"hi">>, <<"x", " ", "y">>}

\* the segments with sep before each of them
RECURSIVE Prefixed(_, _)
Prefixed(segs, sep) ==
    IF segs = <<>> THEN <<>> ELSE sep \o Head(segs) \o Prefixed(Tail(segs), sep)

\* a path made of the segments, written in one of the styles
Written(segs, style) ==
    CASE style = "plain" -> JoinWith(segs, "/")
      [] style = "leading" -> <<"/">> \o JoinWith(segs, "/")
      [] style = "trailing" -> JoinWith(segs, "/") \o <<"/">>
      [] style = "repeated" -> Prefixed(segs, <<"/", "/">>) \o <<"/", "/">>
      [] style = "dots" -> <<".">> \o Prefixed(segs, <<"/", ".", "/">>) \o <<"/", ".">>

\* the record of one application: r is what the helper did, value what it returned
Applied(name, args, r, value) ==
    [NoCall EXCEPT !.n = call.n + 1,
                   !.name = name,
                   !.args = Some(args),
                   !.state = IF r.threw THEN "Failed" ELSE "Succeeded",
                   !.threw = r.threw,
                   !.error = r.error,
                   !.toolResult = IF r.threw THEN None ELSE Some(value),
                   !.vfsIn = vfsData,
                   !.argVfs = r.argVfs,
                   !.logStart = Len(auditLog)]

\* a helper that returns a tree ended as r: the tree returned becomes the
\* current one, and without one the tree passed in stays
TreeStep(name, args, r) ==
    /\ call.n < MaxVfsSteps
    /\ vfsData' = IF r.threw THEN r.argVfs ELSE r.newVFS.val
    /\ auditLog' = logEvent(auditLog, r.events)
    /\ call' = Applied(name, args, r, r.newVFS.val)
    /\ UNCHANGED <<mindMapData, apiCallLogs, clock, ai, pc>>

\* a helper that only reads returned value
ReadStep(name, args, value) ==
    /\ call.n < MaxVfsSteps
    /\ call' = Applied(name, args, VfsReturn(ArgRef(vfsData), <<>>, vfsData), value)
    /\ UNCHANGED <<mindMapData, vfsData, auditLog, apiCallLogs, clock, ai, pc>>

vfs_resolve ==
    \E segs \in SegmentLists, style \in Styles :
        ReadStep("resolvePath", [path |-> Written(segs, style), segs |-> segs],
                 resolvePath(Written(segs, style)))

vfs_lookup ==
    \E segs \in TreeSegmentLists, style \in Styles :
        ReadStep("getNodeFromPath", [path |-> Written(segs, style), segs |-> segs],
                 getNodeFromPath(vfsData, Written(segs, style)))

vfs_ensure ==
    \E segs \in TreeSegmentLists, style \in TreeStyles :
        TreeStep("ensureDirectoryExists", [path |-> Written(segs, style), segs |-> segs],
                 ensureDirectoryExists(vfsData, Written(segs, style)))

vfs_write ==
    \E segs \in WriteSegmentLists, content \in Contents : \E style \in WriteStyles(segs) :
        TreeStep("writeFileToVFS",
                 [path |-> Written(segs, style), segs |-> segs, content |-> content],
                 writeFileToVFS(vfsData, Written(segs, style), content))

NextVfs ==
    \/ vfs_resolve
    \/ vfs_lookup
    \/ vfs_ensure
    \/ vfs_write

InitVfs == Init /\ ~ai

SpecVfs == InitVfs /\ [][NextVfs]_vars

\* ------------------------------------------- refine_mind_map alone
\* One refine_mind_map call on the initial graph (lines 432-496), its request
\* answered with every list of at most MaxOps operations of RefineOpSet, all
\* of them processed within the millisecond in which the answer arrives.
RefineOpSet ==
    {UpdateOp("trait_a"), UpdateOp("trait_b"), UpdateOp(Ghost),
     MergeOp(Some(<<"trait_a", "trait_b">>)), MergeOp(Some(<<"trait_b">>)), MergeOp(None),
     RelinkOp("trait_b", PersonaRootId), RelinkOp("trait_a", "trait_b"),
     RelinkOp("trait_b", Ghost), RelinkOp(Ghost, PersonaRootId),
     [operation |-> "DELETE_NODE"]}

RECURSIVE RefineLists(_)
RefineLists(n) ==
    IF n = 0 THEN {<<>>}
    ELSE RefineLists(n - 1) \cup
         {Append(l, o) : l \in {x \in RefineLists(n - 1) : Len(x) = n - 1}, o \in RefineOpSet}

\* Date.now() at each of n operations when no millisecond passes
AtOnce(n) == [i \in 1..n |-> clock]

refine_call ==
    /\ call.n = 0
    /\ refine_mind_map

refine_settles ==
    /\ pc = "awaiting"
    /\ \E ops \in RefineLists(MaxOps) :
          Settle(Resolved(TextResponse([json |-> "object", operations |-> ops])),
                 AtOnce(Len(ops)))

NextRefine ==
    \/ refine_call
    \/ refine_settles

InitRefine == Init /\ ai

SpecRefine == InitRefine /\ [][NextRefine]_vars

\* ------------------------------------------------------- properties
\* the last executeTool call has returned to its caller
CallEnded == pc = "idle" /\ call.n > 0

\* positions in the audit log of the events recorded during the last call
CallEvents == (call.logStart + 1)..Len(auditLog)

ActionEvents == {i \in CallEvents : auditLog[i].type = "AGENT_ACTION"}

StateChangeEvents == {i \in CallEvents : auditLog[i].type = "STATE_CHANGE"}

CarriesFailureMarker(e) ==
    e.type = "AGENT_ACTION" /\ e.result # <<>> /\ e.result[1] = FailureMarker

EndsWith(x, suffix) ==
    Len(suffix) <= Len(x) /\ SubSeq(x, Len(x) - Len(suffix) + 1, Len(x)) = suffix

\* the queued request the last call awaited last was rejected
RequestFailed ==
    /\ Len(apiCallLogs) > call.queueStart
    /\ apiCallLogs[Len(apiCallLogs)].status = "Failed"

StructuralError ==
    <<"Cannot create directory: a component of the path '", "notes", "' is not a directory.">>

\* C1: when the handler of a tool call throws, executeTool does not rethrow,
\* returns an envelope whose message is non-empty and ends with the error
\* message, and records exactly one audit event carrying the failure marker.
C1_ThrowIsContained ==
    (CallEnded /\ call.threw) =>
        /\ ~call.rethrown
        /\ call.toolResult # None
        /\ call.toolResult[1].result # <<>>
        /\ EndsWith(call.toolResult[1].result, call.error)
        /\ Cardinality({i \in CallEvents : CarriesFailureMarker(auditLog[i])}) = 1

\* a terminal command has thrown the structural error of the file system
C1_Witness ==
    /\ CallEnded
    /\ call.threw
    /\ call.name = "run_terminal_command"
    /\ call.error = StructuralError

\* C2: a Failed call yields an envelope without a graph snapshot and without a
\* file-system snapshot and leaves both stores as they were; when the request
\* queued by transcend, refine_mind_map or delegate_to_psychology_sub_agent was
\* rejected, the call recorded no STATE_CHANGE event.
C2_FailureMutatesNothing ==
    (CallEnded /\ call.state = "Failed") =>
        /\ call.toolResult # None
        /\ call.toolResult[1].newMindMapData = None
        /\ call.toolResult[1].newVirtualFileSystem = None
        /\ mindMapData = call.mindMapIn
        /\ vfsData = call.vfsIn
        /\ (RequestFailed /\ call.name \in {"transcend", "refine_mind_map",
                                            "delegate_to_psychology_sub_agent"})
              => StateChangeEvents = {}

\* the request queued by refine_mind_map was rejected, on a graph that an
\* earlier call had already changed
C2_Witness ==
    /\ CallEnded
    /\ call.state = "Failed"
    /\ call.name = "refine_mind_map"
    /\ RequestFailed
    /\ mindMapData # InitialMindMap

\* C3: the graph object and the file-system object handed to executeTool hold,
\* when the call has ended, the values they held when it started.
C3_InputsUntouched ==
    CallEnded => (call.argMindMap = call.mindMapIn /\ call.argVfs = call.vfsIn)

\* write --parent has returned a new file system and a new graph
C3_Witness ==
    /\ CallEnded
    /\ call.state = "Succeeded"
    /\ call.name = "run_terminal_command"
    /\ call.toolResult[1].newVirtualFileSystem # None
    /\ call.toolResult[1].newVirtualFileSystem[1] # call.vfsIn
    /\ call.toolResult[1].newMindMapData # None
    /\ call.toolResult[1].newMindMapData[1] # call.mindMapIn

\* C4: every call that has ended recorded exactly one AGENT_ACTION event; it
\* carries the tool name, the arguments and the outcome: the result of the
\* envelope on success, the failure marker followed by the error message on
\* failure.
C4_OneActionEvent ==
    CallEnded =>
        /\ Cardinality(ActionEvents) = 1
        /\ \A i \in ActionEvents :
              /\ auditLog[i].toolName = call.name
              /\ auditLog[i].args = call.args
              /\ auditLog[i].result = IF call.threw
                                      THEN <<FailureMarker>> \o call.error
                                      ELSE call.toolResult[1].result

\* a call that also recorded a STATE_CHANGE event has ended
C4_Witness ==
    /\ CallEnded
    /\ call.state = "Succeeded"
    /\ call.name = "upsert_mind_map_node"
    /\ StateChangeEvents # {}

UnknownNames ==
    {n \in {call.name} : n \notin ReadsArgs \cup {"refine_mind_map", "save_chat_history"}}

\* C5: a call whose name matches no case of the switch ends Succeeded with the
\* message "Unknown tool: <name>", an envelope without snapshots, no
\* STATE_CHANGE event, no queued request, and both stores unchanged.
C5_UnknownToolSucceeds ==
    (CallEnded /\ UnknownNames # {}) =>
        /\ call.state = "Succeeded"
        /\ ~call.threw
        /\ call.toolResult[1].result = <<"Unknown tool: ", call.name>>
        /\ call.toolResult[1].newMindMapData = None
        /\ call.toolResult[1].newVirtualFileSystem = None
        /\ StateChangeEvents = {}
        /\ Len(apiCallLogs) = call.queueStart
        /\ mindMapData = call.mindMapIn
        /\ vfsData = call.vfsIn

\* an unknown tool was called after another call
C5_Witness ==
    /\ CallEnded
    /\ call.name = "launch_rocket"
    /\ call.n > 1

\* the operations the last call applied, when it was a refine that returned
RefineOps ==
    IF CallEnded /\ call.name = "refine_mind_map" /\ call.state = "Succeeded"
    THEN call.outcome[1].response.text[1].operations
    ELSE <<>>

\* the last call was a refine made of one merge of at least two ids
SingleMerge ==
    /\ Len(RefineOps) = 1
    /\ RefineOps[1].operation = "MERGE_NODES"
    /\ RefineOps[1].nodes_to_merge # None
    /\ Len(RefineOps[1].nodes_to_merge[1]) >= 2

MergedIds == Range(RefineOps[1].nodes_to_merge[1])

\* positions of the nodes and links of graph g that graph old does not hold
NewNodes(old, g) == {i \in DOMAIN g.nodes : \A j \in DOMAIN old.nodes : old.nodes[j] # g.nodes[i]}
NewLinks(old, g) == {k \in DOMAIN g.links : \A j \in DOMAIN old.links : old.links[j] # g.links[k]}

\* C6: after a merge of at least two ids no link of the graph has its source
\* or its target among the ids, the graph holds exactly one new node, and
\* exactly one hierarchical link points at that node.
C6_MergeIntegrity ==
    SingleMerge =>
        /\ \A k \in DOMAIN mindMapData.links :
              /\ mindMapData.links[k].source \notin MergedIds
              /\ mindMapData.links[k].target \notin MergedIds
        /\ Cardinality(NewNodes(call.mindMapIn, mindMapData)) = 1
        /\ \A i \in NewNodes(call.mindMapIn, mindMapData) :
              Cardinality({k \in DOMAIN mindMapData.links :
                              /\ mindMapData.links[k].target = mindMapData.nodes[i].id
                              /\ mindMapData.links[k].type = HIERARCHICAL}) = 1

\* the parent the specification gives to a merged node: the source of the
\* first hierarchical link of g that points at one of the ids, the sentinel
\* when there is none
HierarchicalParent(g, ids) ==
    LET k == FindIndex(g.links, {l \in Range(g.links) : l.target \in ids /\ l.type = HIERARCHICAL})
    IN IF k # 0 THEN g.links[k].source ELSE MergeFallbackParent

\* C7: the link a merge adds has for source the source of the first inbound
\* hierarchical link of the merged nodes, and the root sentinel when no
\* hierarchical link points at them; links of other types do not count.
C7_ParentFromHierarchicalLink ==
    SingleMerge =>
        \A k \in NewLinks(call.mindMapIn, mindMapData) :
            mindMapData.links[k].source = HierarchicalParent(call.mindMapIn, MergedIds)

\* the CREATE_NODE events of the last call
CreateEvents ==
    {i \in StateChangeEvents : auditLog[i].action = "CREATE_NODE"}

\* C8: the node an upsert creates has an id that no node of the graph it was
\* given has, and exactly one hierarchical link leads from the parent to it.
C8_CreatedIdsDistinct ==
    (CallEnded /\ call.name = "upsert_mind_map_node") =>
        \A i \in CreateEvents :
            /\ auditLog[i].details.node.id \notin NodeIds(call.mindMapIn)
            /\ Cardinality({k \in DOMAIN mindMapData.links :
                              /\ mindMapData.links[k].target = auditLog[i].details.node.id
                              /\ mindMapData.links[k].source = call.args[1].parent_node_id
                              /\ mindMapData.links[k].type = HIERARCHICAL}) = 1

NodeIdsUnique(g) ==
    \A i, j \in DOMAIN g.nodes : i # j => g.nodes[i].id # g.nodes[j].id

\* C9: in every graph the calls produce the node ids are pairwise distinct,
\* and a node the last call added has an id that no node had before the call.
C9_NodeIdsUnique ==
    /\ NodeIdsUnique(mindMapData)
    /\ CallEnded =>
          \A i \in NewNodes(call.mindMapIn, mindMapData) :
              \/ mindMapData.nodes[i].id \notin NodeIds(call.mindMapIn)
              \/ \E j \in DOMAIN call.mindMapIn.nodes :
                    /\ call.mindMapIn.nodes[j].id = mindMapData.nodes[i].id
                    /\ call.mindMapIn.nodes[j].createdAt = mindMapData.nodes[i].createdAt
                    /\ call.mindMapIn.nodes[j].source = mindMapData.nodes[i].source

\* nodes reached from the set S along hierarchical links
RECURSIVE ReachFrom(_, _)
ReachFrom(g, S) ==
    LET T == S \cup {g.links[k].target : k \in {x \in DOMAIN g.links :
                                                 /\ g.links[x].type = HIERARCHICAL
                                                 /\ g.links[x].source \in S}}
    IN IF T = S THEN S ELSE ReachFrom(g, T)

AllReachable(g) == NodeIds(g) \subseteq ReachFrom(g, {PersonaRootId} \cap NodeIds(g))

\* C10: an upsert, a create-link or a refine (merge, relink) that is given a
\* graph whose nodes are all reachable from the root along hierarchical links
\* returns a graph whose nodes are all reachable from the root, and no link of
\* that graph touches a node the call removed.
C10_ReachabilityPreserved ==
    (/\ CallEnded
     /\ call.state = "Succeeded"
     /\ call.name \in {"upsert_mind_map_node", "create_mind_map_link", "refine_mind_map"}
     /\ AllReachable(call.mindMapIn)) =>
        /\ AllReachable(mindMapData)
        /\ \A k \in DOMAIN mindMapData.links :
              \A id \in NodeIds(call.mindMapIn) \ NodeIds(mindMapData) :
                  mindMapData.links[k].source # id /\ mindMapData.links[k].target # id

\* the graph the envelope of the last call carries
ReturnedGraph == call.toolResult[1].newMindMapData[1]

\* the last call was upsert_mind_map_node and it could read its arguments
UpsertCall == CallEnded /\ call.name = "upsert_mind_map_node" /\ call.args # None

\* position in graph g of the first hierarchical link that points at id; 0 if none
InboundHierarchical(g, id) ==
    FindIndex(g.links, {l \in Range(g.links) : l.target = id /\ l.type = HIERARCHICAL})

MissingParentError == <<"Error: Valid parent_node_id is required to create a new node.">>

\* C11: an upsert without node id returns the missing-parent error and the
\* graph it was given unless the parent id is given and names a node of the
\* graph; with such a parent (and a name) it appends one node carrying the
\* name and one hierarchical link of strength 0.9 from the parent to that
\* node, and keeps every other node and link.
C11_CreateNeedsParent ==
    (UpsertCall /\ call.args[1].node_id = "") =>
        IF /\ call.args[1].parent_node_id # ""
           /\ call.args[1].parent_node_id \in NodeIds(call.mindMapIn)
        THEN call.args[1].name # None =>
                /\ call.state = "Succeeded"
                /\ Len(mindMapData.nodes) = Len(call.mindMapIn.nodes) + 1
                /\ SubSeq(mindMapData.nodes, 1, Len(call.mindMapIn.nodes)) = call.mindMapIn.nodes
                /\ mindMapData.nodes[Len(mindMapData.nodes)].name = call.args[1].name[1]
                /\ mindMapData.links =
                      Append(call.mindMapIn.links,
                             [source |-> call.args[1].parent_node_id,
                              target |-> mindMapData.nodes[Len(mindMapData.nodes)].id,
                              type |-> HIERARCHICAL,
                              strength |-> UpsertLinkStrength])
                /\ ReturnedGraph = mindMapData
        ELSE /\ call.state = "Succeeded"
             /\ call.toolResult[1].result = MissingParentError
             /\ ReturnedGraph = call.mindMapIn
             /\ mindMapData = call.mindMapIn
             /\ StateChangeEvents = {}

\* a node was created under a parent that is not the root
C11_Witness ==
    /\ UpsertCall
    /\ call.args[1].node_id = ""
    /\ call.args[1].parent_node_id = "trait_b"
    /\ Len(mindMapData.nodes) = Len(call.mindMapIn.nodes) + 1

NodeNotFoundError(id) == <<"Error: Node with ID ", id, " not found for update.">>

\* position of the node with this id in graph g; 0 if none
NodeIndex(g, id) == FindIndex(g.nodes, {n \in Range(g.nodes) : n.id = id})

\* C12: an upsert with the id of an existing node changes, in that node only,
\* name, content and type to the values given (keeping those not given) and
\* updatedAt; with a parent id it sets the source of the node's first inbound
\* hierarchical link to that parent and changes no link when there is none;
\* the numbers of nodes and links stay.  With an id no node has it returns
\* the node-not-found error and the graph it was given.
C12_UpdateInPlace ==
    (UpsertCall /\ call.args[1].node_id # "") =>
        LET a == call.args[1]
            old == call.mindMapIn
            i == NodeIndex(old, a.node_id)
            k == InboundHierarchical(old, a.node_id)
        IN /\ call.state = "Succeeded"
           /\ IF i = 0
              THEN /\ call.toolResult[1].result = NodeNotFoundError(a.node_id)
                   /\ ReturnedGraph = old
                   /\ mindMapData = old
              ELSE /\ Len(mindMapData.nodes) = Len(old.nodes)
                   /\ \A j \in DOMAIN old.nodes : j # i => mindMapData.nodes[j] = old.nodes[j]
                   /\ mindMapData.nodes[i].id = old.nodes[i].id
                   /\ mindMapData.nodes[i].source = old.nodes[i].source
                   /\ mindMapData.nodes[i].createdAt = old.nodes[i].createdAt
                   /\ mindMapData.nodes[i].updatedAt \in old.nodes[i].updatedAt..clock
                   /\ mindMapData.nodes[i].name =
                         IF a.name = None THEN old.nodes[i].name ELSE a.name[1]
                   /\ mindMapData.nodes[i].content =
                         IF a.content = None THEN old.nodes[i].content ELSE a.content[1]
                   /\ mindMapData.nodes[i].type =
                         IF a.node_type = None THEN old.nodes[i].type ELSE a.node_type[1]
                   /\ mindMapData.links =
                         IF a.parent_node_id # "" /\ k # 0
                         THEN [old.links EXCEPT ![k].source = a.parent_node_id]
                         ELSE old.links

\* an update gave a new name and moved the node under another parent
C12_Witness ==
    /\ UpsertCall
    /\ call.args[1].node_id # ""
    /\ NodeIndex(call.mindMapIn, call.args[1].node_id) # 0
    /\ mindMapData.links # call.mindMapIn.links
    /\ mindMapData.nodes # call.mindMapIn.nodes

EndpointNotFoundError == <<"Error: Both source and target nodes must exist to create a link.">>

\* C13: create_mind_map_link returns the endpoint error and the graph it was
\* given unless source and target both name nodes; otherwise it appends one
\* link of strength 0.7 between them, also when an equal link exists, and
\* changes nothing else.
C13_CreateLinkAppends ==
    (CallEnded /\ call.name = "create_mind_map_link" /\ call.args # None) =>
        /\ call.state = "Succeeded"
        /\ IF /\ call.args[1].source_node_id \in NodeIds(call.mindMapIn)
              /\ call.args[1].target_node_id \in NodeIds(call.mindMapIn)
           THEN /\ mindMapData.nodes = call.mindMapIn.nodes
                /\ mindMapData.links =
                      Append(call.mindMapIn.links,
                             [source |-> call.args[1].source_node_id,
                              target |-> call.args[1].target_node_id,
                              type |-> call.args[1].link_type,
                              strength |-> CreateLinkStrength])
           ELSE /\ call.toolResult[1].result = EndpointNotFoundError
                /\ ReturnedGraph = call.mindMapIn
                /\ mindMapData = call.mindMapIn
                /\ StateChangeEvents = {}

\* the same link was created a second time
C13_Witness ==
    /\ CallEnded
    /\ call.name = "create_mind_map_link"
    /\ Len(mindMapData.links) = Len(call.mindMapIn.links) + 1
    /\ mindMapData.links[Len(mindMapData.links)] \in Range(call.mindMapIn.links)

\* the last call was a refine made of one relink
SingleRelink ==
    /\ Len(RefineOps) = 1
    /\ RefineOps[1].operation = "RELINK_NODE"

\* C14: a relink sets the source of the node's first inbound hierarchical
\* link to the new parent; when the node has no such link or the new parent
\* names no node, the refine still returns, the graph stays as it was and no
\* STATE_CHANGE event is recorded.
C14_RelinkOrNoOp ==
    SingleRelink =>
        LET op == RefineOps[1]
            old == call.mindMapIn
            k == InboundHierarchical(old, op.node_to_relink)
        IN IF k # 0 /\ op.new_parent_id \in NodeIds(old)
           THEN /\ mindMapData = [old EXCEPT !.links[k].source = op.new_parent_id]
                /\ Cardinality(StateChangeEvents) = 1
           ELSE /\ mindMapData = old
                /\ StateChangeEvents = {}

\* a relink moved a node under another parent
C14_Witness ==
    /\ SingleRelink
    /\ mindMapData.links # call.mindMapIn.links

\* C15: a transcend that returns appends one node of type QUANTUM_INSIGHT and
\* one hierarchical link of strength 0.8 from Persona_Core to that node, and
\* keeps every other node and link.
C15_InsightAppended ==
    (CallEnded /\ call.name = "transcend" /\ call.state = "Succeeded") =>
        /\ Len(mindMapData.nodes) = Len(call.mindMapIn.nodes) + 1
        /\ SubSeq(mindMapData.nodes, 1, Len(call.mindMapIn.nodes)) = call.mindMapIn.nodes
        /\ mindMapData.nodes[Len(mindMapData.nodes)].type = "QUANTUM_INSIGHT"
        /\ mindMapData.links =
              Append(call.mindMapIn.links,
                     [source |-> PersonaRootId,
                      target |-> mindMapData.nodes[Len(mindMapData.nodes)].id,
                      type |-> HIERARCHICAL,
                      strength |-> InsightLinkStrength])

\* a transcend returned on a graph an earlier call had changed
C15_Witness ==
    /\ CallEnded
    /\ call.name = "transcend"
    /\ call.state = "Succeeded"
    /\ call.mindMapIn # InitialMindMap

\* the last application of a path helper, its path and the segments of the path
Helper(name) == call.name = name
HelperPath == call.args[1].path
HelperSegs == call.args[1].segs

\* the node the segments name below node, walking through the keys the
\* folders have; NotFound when a key is missing or the walk meets a file
RECURSIVE NodeAt(_, _)
NodeAt(node, segs) ==
    IF segs = <<>> THEN node
    ELSE IF node.type = "folder" /\ Head(segs) \in DOMAIN node.children
         THEN NodeAt(node.children[Head(segs)], Tail(segs))
         ELSE NotFound

\* some segment of segs names a file of the tree
ThroughFile(tree, segs) ==
    \E k \in 1..Len(segs) : NodeAt(Folder(tree), SubSeq(segs, 1, k)).type = "file"

\* the tree with an empty folder added wherever a segment of segs names nothing
RECURSIVE WithFolders(_, _)
WithFolders(tree, segs) ==
    IF segs = <<>> THEN tree
    ELSE (Head(segs) :> Folder(WithFolders(IF Head(segs) \in DOMAIN tree
                                           THEN tree[Head(segs)].children
                                           ELSE <<>>,
                                           Tail(segs)))) @@ tree

NotADirectoryError(error) ==
    /\ error # <<>>
    /\ error[1] = "Cannot create directory: a component of the path '"

\* a helper threw: it returned no tree, the tree is as it was and nothing was logged
NothingProduced ==
    /\ call.threw
    /\ call.toolResult = None
    /\ vfsData = call.vfsIn
    /\ call.argVfs = call.vfsIn
    /\ Len(auditLog) = call.logStart

\* C16: ensureDirectoryExists throws the not-a-directory error and produces
\* no tree when a segment of the path names a file of the tree; otherwise it
\* returns the tree with an empty folder added for every segment that named
\* nothing and every node that was there kept as it was.
C16_EnsureCreatesMissing ==
    Helper("ensureDirectoryExists") =>
        IF ThroughFile(call.vfsIn, HelperSegs)
        THEN NothingProduced /\ NotADirectoryError(call.error)
        ELSE /\ ~call.threw
             /\ vfsData = WithFolders(call.vfsIn, HelperSegs)
             /\ call.argVfs = call.vfsIn

\* C17: after a writeFileToVFS that returned, getNodeFromPath of the same
\* path in the returned tree is a file with the content written, every
\* segment before the last names a folder of the returned tree, and the tree
\* passed in is as it was.
C17_WriteThenLookup ==
    (Helper("writeFileToVFS") /\ ~call.threw) =>
        /\ getNodeFromPath(vfsData, HelperPath) = File(call.args[1].content)
        /\ \A k \in 1..(Len(HelperSegs) - 1) :
              NodeAt(Folder(vfsData), SubSeq(HelperSegs, 1, k)).type = "folder"
        /\ call.argVfs = call.vfsIn

\* a file was written below a folder that did not exist
C17_Witness ==
    /\ Helper("writeFileToVFS")
    /\ ~call.threw
    /\ Len(HelperSegs) = 2
    /\ NodeAt(Folder(call.vfsIn), SubSeq(HelperSegs, 1, 1)) = NotFound
    /\ NodeAt(Folder(vfsData), HelperSegs) = File(call.args[1].content)

\* C18: writeFileToVFS throws the invalid-path error when the path has no
\* segment left after resolving, and the not-a-directory error when a segment
\* before the last names a file; in both cases it returns no tree, the tree
\* is as it was and no audit event is recorded.
C18_WriteRejects ==
    Helper("writeFileToVFS") =>
        /\ HelperSegs = <<>> =>
              /\ NothingProduced
              /\ call.error = <<"Invalid file path provided: ", DQ>> \o HelperPath \o <<DQ>>
        /\ (HelperSegs # <<>> /\ ThroughFile(call.vfsIn, SubSeq(HelperSegs, 1, Len(HelperSegs) - 1))) =>
              /\ NothingProduced
              /\ NotADirectoryError(call.error)

\* a write below a file was rejected
C18_Witness ==
    /\ Helper("writeFileToVFS")
    /\ Len(HelperSegs) = 3
    /\ NodeAt(Folder(call.vfsIn), SubSeq(HelperSegs, 1, 2)).type = "file"
    /\ call.threw

\* C19: getNodeFromPath never throws and returns the node the segments of the
\* path name, or not-found exactly when a segment is missing from the folder
\* reached or the walk meets a file; with no segment it returns the root.
C19_LookupTotal ==
    Helper("getNodeFromPath") =>
        /\ ~call.threw
        /\ call.toolResult = Some(NodeAt(Folder(call.vfsIn), HelperSegs))

\* C20: resolvePath returns the segments of the path in order, whatever
\* slashes and '.' segments surround them and with '..' kept as a name; the
\* path so written names the same node as its segments joined by one slash.
C20_ResolveNormalises ==
    Helper("resolvePath") =>
        /\ call.toolResult = Some(HelperSegs)
        /\ getNodeFromPath(vfsData, HelperPath) = getNodeFromPath(vfsData, JoinWith(HelperSegs, "/"))

\* a path with '.' segments and a '..' segment that names a file was resolved
C20_Witness ==
    /\ Helper("resolvePath")
    /\ HelperSegs = << <<".", ".">>, <<"a">> >>
    /\ HelperPath = <<".", "/", ".", "/", ".", ".", "/", ".", "/", "a", "/", ".">>
    /\ getNodeFromPath(vfsData, HelperPath).type = "file"

\* the last call was run_terminal_command with this command line
TerminalCall(command) ==
    /\ CallEnded
    /\ call.name = "run_terminal_command"
    /\ call.args = Some([command |-> command])

\* the path an ls command names, and its segments
LsPath(command) == IF command = CmdLs THEN <<"/">> ELSE <<"/", "notes">>
LsSegments(command) == IF command = CmdLs THEN <<>> ELSE << <<"notes">> >>

\* the lines of an ls result, each without the slash that marks a folder
ListedNames(result) ==
    IF result = <<>> THEN {}
    ELSE {IF l # <<>> /\ l[Len(l)] = "/" THEN SubSeq(l, 1, Len(l) - 1) ELSE l :
            l \in Range(SplitOn(result, "\n", <<>>))}

\* C21: ls returns exactly when its path (the root when none is given) names
\* a folder of the tree, and its result then lists the names of the children
\* of that folder, one a line (a folder's name followed by a slash); when the
\* path names nothing or a file the call fails with the cannot-access error.
C21_LsListsFolders ==
    \A command \in {CmdLs, CmdLsNotes} :
        TerminalCall(command) =>
            LET node == NodeAt(Folder(call.vfsIn), LsSegments(command)) IN
            IF node.type = "folder"
            THEN /\ call.state = "Succeeded"
                 /\ ListedNames(call.toolResult[1].result) = DOMAIN node.children
                 /\ Len(SplitOn(call.toolResult[1].result, "\n", <<>>))
                       = IF DOMAIN node.children = {} THEN 1 ELSE Cardinality(DOMAIN node.children)
            ELSE /\ call.state = "Failed"
                 /\ call.error = <<"ls: cannot access '">> \o LsPath(command)
                                    \o <<"': Not a directory">>

\* ls listed a folder that holds something
C21_Witness ==
    /\ TerminalCall(CmdLsNotes)
    /\ call.state = "Succeeded"
    /\ call.toolResult[1].result # <<>>

\* the last call only read: ls, cat, or get_node_details
ReadCall ==
    /\ CallEnded
    /\ call.args # None
    /\ \/ call.name = "get_node_details"
       \/ /\ call.name = "run_terminal_command"
          /\ call.args[1].command \in {CmdLs, CmdLsNotes, CmdCat, CmdCatFile}

\* the call before the last one was the same call
Repeated ==
    /\ call.logStart > 0
    /\ auditLog[call.logStart].type = "AGENT_ACTION"
    /\ auditLog[call.logStart].toolName = call.name
    /\ auditLog[call.logStart].args = call.args

\* C22: ls, cat and get_node_details leave the tree and the graph as they
\* were, also in the objects passed in, return an envelope without snapshot
\* and record no STATE_CHANGE event; the second of two equal calls in a row
\* logs the result the first one logged.
C22_ReadsChangeNothing ==
    ReadCall =>
        /\ mindMapData = call.mindMapIn
        /\ vfsData = call.vfsIn
        /\ call.argMindMap = call.mindMapIn
        /\ call.argVfs = call.vfsIn
        /\ call.toolResult[1].newMindMapData = None
        /\ call.toolResult[1].newVirtualFileSystem = None
        /\ StateChangeEvents = {}
        /\ Repeated => auditLog[Len(auditLog)].result = auditLog[call.logStart].result

\* the details of an existing node were read twice in a row
C22_Witness ==
    /\ ReadCall
    /\ Repeated
    /\ call.name = "get_node_details"
    /\ call.args[1].node_id = PersonaRootId
    /\ call.state = "Succeeded"

\* the number of stores (tree, graph) the last call left different from what they were
StoresChanged ==
    (IF vfsData # call.vfsIn THEN 1 ELSE 0) + (IF mindMapData # call.mindMapIn THEN 1 ELSE 0)

\* C23: a call that ends Succeeded records one STATE_CHANGE event, naming
\* its domain and action, for each store it changed (for refine_mind_map at
\* most one for each operation and none when the graph is as it was); a call
\* that fails or that leaves the stores as they were records none.
C23_OneEventPerMutation ==
    CallEnded =>
        /\ \A i \in StateChangeEvents :
              auditLog[i].domain \in {"VFS", "MIND_MAP"} /\ auditLog[i].action # ""
        /\ IF call.state # "Succeeded" THEN StateChangeEvents = {}
           ELSE IF call.name = "refine_mind_map"
           THEN /\ Cardinality(StateChangeEvents) <= Len(RefineOps)
                /\ mindMapData = call.mindMapIn => StateChangeEvents = {}
           ELSE Cardinality(StateChangeEvents) = StoresChanged

\* x is the beginning of y
IsPrefix(x, y) == Len(x) <= Len(y) /\ SubSeq(y, 1, Len(x)) = x

\* C24: every step, whether a call starts, suspends, resumes, succeeds or
\* fails, leaves the audit log it found as the beginning of the audit log it
\* leaves: no event is removed, moved or changed.
C24_AuditLogAppendOnly == [][IsPrefix(auditLog, auditLog')]_vars

\* a call failed after the log had already received the events of an earlier call
C24_Witness ==
    /\ CallEnded
    /\ call.state = "Failed"
    /\ call.logStart > 1
    /\ Len(auditLog) > call.logStart

\* the last call is synthesize_knowledge, and the entries of the queue log it made
Synthesize == call.n > 0 /\ call.name = "synthesize_knowledge"
Submitted == Len(apiCallLogs) - call.queueStart

\* call.outcome is the answer to the first request while the call has made
\* one request or awaits its second one.
\* an answer of the pre-filter that names no node: nothing but blanks and commas
NamesNothing(text) == \A i \in 1..Len(text) : text[i] \in {" ", ","}

\* C25: when the pre-filter request of synthesize_knowledge resolves with a
\* text that names no node, the call ends Succeeded with the message that no
\* relevant node was identified, and the synthesis request is never
\* submitted: the call has made one entry in the queue log.
C25_EmptyFilterEnds ==
    (Synthesize /\ call.outcome # None /\ (call.stage = 1 \/ pc = "awaiting")
       /\ call.outcome[1].ok /\ call.outcome[1].response.text # None
       /\ NamesNothing(call.outcome[1].response.text[1])) =>
        /\ pc = "idle"
        /\ call.state = "Succeeded"
        /\ call.toolResult[1].result =
              <<"No specific nodes in the knowledge graph were identified as relevant to the topic ", DQ>>
                 \o call.args[1].topic \o <<DQ, ".">>
        /\ Submitted = 1
        /\ mindMapData = call.mindMapIn

\* the pre-filter of a synthesize call answered with blanks only
C25_Witness ==
    /\ Synthesize
    /\ call.stage = 1
    /\ call.outcome # None
    /\ call.outcome[1].ok
    /\ call.state = "Succeeded"

\* C26: synthesize_knowledge submits its second request only when the first
\* has succeeded, so its entries in the queue log are never Pending together;
\* when the first request is rejected the second is never submitted and the
\* call ends Failed.
C26_SecondAfterFirst ==
    Synthesize =>
        /\ Submitted <= 2
        /\ Submitted = 2 => apiCallLogs[call.queueStart + 1].status = "Succeeded"
        /\ (Submitted >= 1 /\ apiCallLogs[call.queueStart + 1].status = "Failed") =>
              /\ Submitted = 1
              /\ pc = "idle"
              /\ call.state = "Failed"
              /\ call.error = call.outcome[1].error

\* the first request of a synthesize call was rejected
C26_Witness ==
    /\ Synthesize
    /\ CallEnded
    /\ Submitted = 1
    /\ apiCallLogs[call.queueStart + 1].status = "Failed"

\* positions of the requests in flight: submitted and not settled
InFlight == {i \in 1..Len(apiCallLogs) : apiCallLogs[i].status = "Pending"}

EntryLifecycle ==
    /\ Len(apiCallLogs') \in {Len(apiCallLogs), Len(apiCallLogs) + 1}
    /\ \A i \in (Len(apiCallLogs) + 1)..Len(apiCallLogs') : apiCallLogs'[i].status = "Pending"
    /\ \A i \in 1..Len(apiCallLogs) :
          \/ apiCallLogs'[i] = apiCallLogs[i]
          \/ /\ apiCallLogs[i].status = "Pending"
             /\ apiCallLogs'[i].agentName = apiCallLogs[i].agentName
             /\ call'.outcome # None
             /\ IF call'.outcome[1].ok
                THEN apiCallLogs'[i].status = "Succeeded"
                ELSE /\ apiCallLogs'[i].status = "Failed"
                     /\ apiCallLogs'[i].error = call'.outcome[1].error
                     /\ Len(apiCallLogs') = Len(apiCallLogs)
    /\ pc' = "idle" => \A i \in 1..Len(apiCallLogs') : apiCallLogs'[i].status # "Pending"

\* C28: an entry of the queue log is created Pending, becomes Succeeded or
\* Failed (with the error text) according to how its request settles, before
\* the call that made it goes on or ends, and is never changed afterwards; a
\* rejected request is not submitted again, and entries do not change each
\* other.
C28_EntryLifecycle == [][EntryLifecycle]_vars

\* a request succeeded after an earlier one had been rejected
C28_Witness ==
    /\ Len(apiCallLogs) = 2
    /\ apiCallLogs[1].status = "Failed"
    /\ apiCallLogs[1].error # <<>>
    /\ apiCallLogs[2].status = "Succeeded"

\* command lines with a verb the terminal does not know, or with none
UnknownCommands == {CmdUnknown, CmdEmpty}

\* command lines that leave out an argument their verb requires
IncompleteCommands == {CmdCat, CmdWriteUsage, CmdMkdirUsage, CmdTouchUsage, CmdPythonUsage}

\* the error text the command line is answered with
RefusalOf(command) ==
    CASE command = CmdUnknown -> <<"Unknown command: ", "rm">>
      [] command = CmdEmpty -> <<"Unknown command: ", "undefined">>
      [] command = CmdCat -> <<"Usage: cat <path>">>
      [] command = CmdWriteUsage -> <<"Usage: write <path> <content> [--parent=<node_id>]">>
      [] command = CmdMkdirUsage -> <<"Usage: mkdir <path>">>
      [] command = CmdTouchUsage -> <<"Usage: touch <path>">>
      [] command = CmdPythonUsage -> <<"Usage: python <path_to_script>">>

\* C29: a command line whose verb is unknown (or that is empty) fails with
\* the unknown-command error, and cat, write, mkdir, touch and python without
\* a required argument fail with their usage text; the call ends Failed, its
\* result carries no tree and no graph, and both stores are as they were.
C29_BadCommandFails ==
    \A command \in UnknownCommands \cup IncompleteCommands :
        TerminalCall(command) =>
            /\ call.state = "Failed"
            /\ call.error = RefusalOf(command)
            /\ call.toolResult # None
            /\ call.toolResult[1].newVirtualFileSystem = None
            /\ call.toolResult[1].newMindMapData = None
            /\ vfsData = call.vfsIn
            /\ mindMapData = call.mindMapIn

\* write was given a path and no content, after an earlier call had filled the tree
C29_Witness ==
    /\ TerminalCall(CmdWriteUsage)
    /\ call.n = 2
    /\ call.state = "Failed"
    /\ call.vfsIn # <<>>

\* the write commands that name a parent node, the node they name, the text
\* between their quotes, and the path they write
ParentWrites == {CmdWriteParent, CmdWriteGhost}
ParentOf(command) == IF command = CmdWriteParent THEN PersonaRootId ELSE Ghost
QuotedText(command) ==
    IF command = CmdWriteParent THEN <<"hello", " ", "world">> ELSE <<"(", "hi">>
WrittenPath == <<"/", "notes", "/", "a", ".", "txt">>
WrittenSegments == << <<"notes">>, <<"a", ".", "txt">> >>

\* graph g is graph old with one FILE_REFERENCE node for the written path
\* added, and one HIERARCHICAL link to it from node id
GainsFileReference(g, old, id) ==
    /\ Len(g.nodes) = Len(old.nodes) + 1
    /\ SubSeq(g.nodes, 1, Len(old.nodes)) = old.nodes
    /\ g.nodes[Len(g.nodes)].type = "FILE_REFERENCE"
    /\ g.nodes[Len(g.nodes)].linkedFile = WrittenPath
    /\ Len(g.links) = Len(old.links) + 1
    /\ SubSeq(g.links, 1, Len(old.links)) = old.links
    /\ g.links[Len(g.links)] =
          MkLink(id, g.nodes[Len(g.nodes)].id, HIERARCHICAL, FileRefLinkStrength)

\* C30: write with quoted content and a --parent flag, where no folder of
\* the path is a file, succeeds and returns a tree in which the path is a
\* file holding the text without its quotes; when the flag names a node of
\* the graph the returned graph has one more node, a reference to that file,
\* and one more link, hierarchical, from the named node to it; when it names
\* no node the graph is returned as it was.
C30_WriteWithParent ==
    \A command \in ParentWrites :
        (TerminalCall(command) /\ ~ThroughFile(call.vfsIn, SubSeq(WrittenSegments, 1, 1))) =>
            /\ call.state = "Succeeded"
            /\ call.toolResult[1].newVirtualFileSystem # None
            /\ NodeAt(Folder(call.toolResult[1].newVirtualFileSystem[1]), WrittenSegments)
                  = File(QuotedText(command))
            /\ call.toolResult[1].filePathHandled = Some(WrittenPath)
            /\ call.toolResult[1].newMindMapData # None
            /\ IF ParentOf(command) \in NodeIds(call.mindMapIn)
               THEN GainsFileReference(ReturnedGraph, call.mindMapIn, ParentOf(command))
               ELSE ReturnedGraph = call.mindMapIn

\* a file was written under an existing parent node and referenced in the graph
C30_Witness ==
    /\ TerminalCall(CmdWriteParent)
    /\ call.state = "Succeeded"
    /\ Len(ReturnedGraph.nodes) = Len(call.mindMapIn.nodes) + 1

\* the states in which a call has ended
TerminalStates == {"Succeeded", "Failed"}

\* one step of the call executeTool is working on
CallStep ==
    /\ call'.n \in {call.n, call.n + 1}
    /\ call'.n = call.n + 1 =>
          /\ call.state \in TerminalStates \cup {"None"}
          /\ call'.state \in TerminalStates \cup {"Executing"}
    /\ call'.n = call.n =>
          /\ call.state \in TerminalStates \cup {"None"} => call'.state = call.state
          /\ call.state = "Executing" => call'.state \in TerminalStates \cup {"Executing"}
    /\ (call'.state = "Executing") = (pc' = "awaiting")
    /\ call'.state \in TerminalStates =>
          /\ call'.toolResult # None
          /\ (call'.state = "Failed") = call'.threw

\* C31: a call is taken up only when the one before it has ended, is
\* Executing while it awaits a request, ends in exactly one of Succeeded and
\* Failed with an envelope, and keeps that state; when every request it
\* awaits settles, a call that is Executing ends.
C31_CallLifecycle ==
    /\ [][CallStep]_vars
    /\ (call.state = "Executing") ~> (call.state \in TerminalStates)

\* a call that awaited two requests has ended
C31_Witness ==
    /\ CallEnded
    /\ call.stage = 2
    /\ call.state = "Succeeded"

\* every link of graph g starts and ends at a node of g
EndpointsValid(g) ==
    \A i \in 1..Len(g.links) :
        g.links[i].source \in NodeIds(g) /\ g.links[i].target \in NodeIds(g)

\* the last call was made to one of the graph tools a caller names directly:
\* upsert, create-link, or write with a --parent flag
DirectGraphCall ==
    /\ CallEnded
    /\ call.args # None
    /\ \/ call.name \in {"upsert_mind_map_node", "create_mind_map_link"}
       \/ /\ call.name = "run_terminal_command"
          /\ call.args[1].command \in ParentWrites

\* C32: a call of upsert, create-link or write --parent on a graph whose
\* links all start and end at existing nodes leaves a graph whose links all
\* start and end at existing nodes.
C32_EndpointsStayValid ==
    [][(call'.n = call.n + 1 /\ DirectGraphCall' /\ EndpointsValid(mindMapData))
          => EndpointsValid(mindMapData')]_vars

\* the id that graph g gives as parent of node id: the source of the first
\* hierarchical link that points at it
ParentIn(g, id) ==
    IF InboundHierarchical(g, id) = 0 THEN None
    ELSE Some(g.links[InboundHierarchical(g, id)].source)

\* positions in the log of the merges made before the last call that found
\* no link pointing at the nodes they merged: the first change made to the
\* initial graph, merging nodes that no link of that graph points at
FallbackMerges ==
    {i \in 1..call.logStart :
        /\ auditLog[i].type = "STATE_CHANGE"
        /\ auditLog[i].action = "MERGE_NODES"
        /\ \A j \in 1..(i - 1) : auditLog[j].type # "STATE_CHANGE"
        /\ \A k \in 1..Len(InitialMindMap.links) :
              InitialMindMap.links[k].target \notin Range(auditLog[i].details.mergedIds)}

\* the last call was a transcend that added its insight to a graph refined before
TranscendAfterRefine ==
    /\ CallEnded
    /\ call.n = 2
    /\ call.name = "transcend"
    /\ call.state = "Succeeded"

\* C33: when a merge of nodes that no link points at is followed by a
\* transcend, the node the merge made and the insight node have the same
\* parent id.
C33_SameRootId ==
    TranscendAfterRefine =>
        \A i \in FallbackMerges :
            ParentIn(ReturnedGraph, auditLog[i].details.newNode.id)
                = ParentIn(ReturnedGraph, LastId(ReturnedGraph))

\* the last call was a refine whose request was answered with a list of operations
RefineAnswered ==
    /\ CallEnded
    /\ call.name = "refine_mind_map"
    /\ call.outcome # None
    /\ call.outcome[1].ok
    /\ call.outcome[1].response.text # None
    /\ call.outcome[1].response.text[1].json = "object"

GivenOps == call.outcome[1].response.text[1].operations

\* op is a merge of at least two ids
Merges(op) ==
    /\ op.operation = "MERGE_NODES"
    /\ op.nodes_to_merge # None
    /\ Len(op.nodes_to_merge[1]) >= 2

\* op can be applied to no graph that holds no node Ghost: it names an
\* unknown node or parent, merges fewer than two ids, raises an error while
\* it is processed (no list of ids), or is no operation refine knows
NeverApplies(op) ==
    CASE op.operation = "UPDATE_NODE_CONTENT" -> op.node_id_to_update = Ghost
      [] op.operation = "MERGE_NODES" -> ~Merges(op)
      [] op.operation = "RELINK_NODE" -> op.node_to_relink = Ghost \/ op.new_parent_id = Ghost
      [] OTHER -> TRUE

\* ops[i] updates or relinks a node, or relinks under a node, that a merge
\* earlier in the list has removed
NamesMerged(ops, i) ==
    \E j \in 1..(i - 1) :
        /\ Merges(ops[j])
        /\ \/ /\ ops[i].operation = "UPDATE_NODE_CONTENT"
              /\ ops[i].node_id_to_update \in Range(ops[j].nodes_to_merge[1])
           \/ /\ ops[i].operation = "RELINK_NODE"
              /\ \/ ops[i].node_to_relink \in Range(ops[j].nodes_to_merge[1])
                 \/ ops[i].new_parent_id \in Range(ops[j].nodes_to_merge[1])

\* the operations of ops from position i on that are not in skipped, in order
RECURSIVE Without(_, _, _)
Without(ops, skipped, i) ==
    IF i > Len(ops) THEN <<>>
    ELSE (IF i \in skipped THEN <<>> ELSE <<ops[i]>>) \o Without(ops, skipped, i + 1)

\* the operations of ops that can take effect
TakeEffect(ops) ==
    Without(ops, {i \in 1..Len(ops) : NeverApplies(ops[i]) \/ NamesMerged(ops, i)}, 1)

\* what refine returns for graph g when it is answered with ops
RefineOf(g, ops) ==
    refine_resume(TextResponse([json |-> "object", operations |-> ops]), g, clock,
                  AtOnce(Len(ops)))

\* the refine call returned what refine returns for graph g and the list ops
ReturnedAsFor(g, ops) ==
    /\ call.toolResult[1].newMindMapData = RefineOf(g, ops).newMindMapData
    /\ call.toolResult[1].result = RefineOf(g, ops).result
    /\ Cardinality(StateChangeEvents) = Len(ops)

\* C34: a refine call answered with a list of operations ends Succeeded and
\* returns the graph and the summary it returns for the same list without
\* the operations that cannot be applied and without the updates and relinks
\* that name a node an earlier merge of the list removed; it records one
\* STATE_CHANGE event for each of the operations left.
C34_RefineSequential ==
    RefineAnswered =>
        /\ call.state = "Succeeded"
        /\ ReturnedAsFor(call.mindMapIn, TakeEffect(GivenOps))

\* an update that names a merged node came after the merge, and an update
\* of an unknown node came before an operation that took effect
C34_Witness ==
    /\ RefineAnswered
    /\ Len(GivenOps) = 2
    /\ \/ /\ Merges(GivenOps[1])
          /\ GivenOps[2] = UpdateOp("trait_a")
       \/ /\ GivenOps[1] = MergeOp(None)
          /\ GivenOps[2] = UpdateOp("trait_a")
          /\ mindMapData # call.mindMapIn

\* the first words of the results with which a tool reports an error without throwing
ErrorOpenings ==
    {"Unknown tool: ", "Error: Node with ID ",
     "Error: Valid parent_node_id is required to create a new node.",
     "Error: Both source and target nodes must exist to create a link.",
     "Error: No image found in the recent conversation to edit."}

\* the last call returned the report of an error
ReportsError ==
    /\ CallEnded
    /\ ~call.threw
    /\ call.toolResult[1].result # <<>>
    /\ call.toolResult[1].result[1] \in ErrorOpenings

\* C35: the AGENT_ACTION event of a call carries the failure marker exactly
\* when the handler threw; a call that reports an error in its result
\* without throwing (unknown tool, upsert of a missing node or without a
\* valid parent, create-link with a missing endpoint, edit_image without an
\* image, get_node_details of a missing id) ends Succeeded, and for upsert
\* and create-link its envelope carries the graph the call was given.
C35_MarkerIffThrew ==
    CallEnded =>
        /\ \A i \in ActionEvents : CarriesFailureMarker(auditLog[i]) = call.threw
        /\ ReportsError =>
              /\ call.state = "Succeeded"
              /\ call.name \in {"upsert_mind_map_node", "create_mind_map_link"} =>
                    call.toolResult[1].newMindMapData = Some(call.mindMapIn)

\* the names a folder of the trees holds
NodeNames == Segments \cup {<<"c">>}

\* the paths of up to three names
NodePaths ==
    {<<x>> : x \in NodeNames} \cup {<<x, y>> : x, y \in NodeNames}
        \cup {<<x, y, z>> : x, y, z \in NodeNames}

\* q is neither on the way from the root to segs nor below segs
OffPath(q, segs) == ~IsPrefix(q, segs) /\ ~IsPrefix(segs, q)

\* C36: a writeFileToVFS that returned changed only the way to its target:
\* every path that is neither a beginning of the target path nor below the
\* target names in the returned tree the node it named in the tree passed in,
\* or nothing in both.
C36_WriteLeavesOthers ==
    (Helper("writeFileToVFS") /\ ~call.threw) =>
        \A q \in NodePaths :
            OffPath(q, HelperSegs) =>
                NodeAt(Folder(vfsData), q) = NodeAt(Folder(call.vfsIn), q)

\* a file was written into a folder that held another node already, below a
\* root that held another node as well
C36_Witness ==
    /\ Helper("writeFileToVFS")
    /\ ~call.threw
    /\ Len(HelperSegs) >= 2
    /\ \E q \in NodePaths :
          /\ Len(q) = Len(HelperSegs)
          /\ SubSeq(q, 1, Len(q) - 1) = SubSeq(HelperSegs, 1, Len(q) - 1)
          /\ q # HelperSegs
          /\ NodeAt(Folder(call.vfsIn), q) # NotFound
    /\ \E q \in NodePaths :
          /\ Len(q) = 1
          /\ OffPath(q, HelperSegs)
          /\ NodeAt(Folder(call.vfsIn), q) # NotFound

\* the last writeFileToVFS was given the path of a folder of the tree
WriteOntoFolder ==
    /\ Helper("writeFileToVFS")
    /\ HelperSegs # <<>>
    /\ NodeAt(Folder(call.vfsIn), HelperSegs).type = "folder"

\* C37: a writeFileToVFS whose path names a folder of the tree returns, and in
\* the returned tree the path names a file with the content written: the
\* folder and everything that was below it are gone.
C37_WriteReplacesFolder ==
    WriteOntoFolder =>
        /\ ~call.threw
        /\ NodeAt(Folder(vfsData), HelperSegs) = File(call.args[1].content)
        /\ \A q \in NodePaths :
              (IsPrefix(HelperSegs, q) /\ q # HelperSegs) =>
                  NodeAt(Folder(vfsData), q) = NotFound

\* a folder that held a node was written onto
C37_Witness ==
    /\ WriteOntoFolder
    /\ ~call.threw
    /\ NodeAt(Folder(call.vfsIn), HelperSegs).children # <<>>
    /\ \E q \in NodePaths :
          /\ IsPrefix(HelperSegs, q)
          /\ q # HelperSegs
          /\ NodeAt(Folder(call.vfsIn), q) # NotFound

\* the segments of the path CmdTouch names
TouchSegments == << <<"notes">>, <<"a", ".", "txt">> >>

\* C38: touch of /notes/a.txt, unless /notes is a file, succeeds and leaves
\* an empty file at the path below a folder /notes, whether the path named
\* nothing or a file before, and the call records exactly one STATE_CHANGE
\* event, the WRITE_FILE of the tree.
C38_TouchMakesEmptyFile ==
    (TerminalCall(CmdTouch) /\ NodeAt(Folder(call.vfsIn), <<TouchSegments[1]>>).type # "file") =>
        /\ call.state = "Succeeded"
        /\ NodeAt(Folder(vfsData), TouchSegments) = File(<<>>)
        /\ NodeAt(Folder(vfsData), <<TouchSegments[1]>>).type = "folder"
        /\ Cardinality(StateChangeEvents) = 1
        /\ \A i \in StateChangeEvents :
              auditLog[i].domain = "VFS" /\ auditLog[i].action = "WRITE_FILE"

\* touch of a file that held text
C38_Witness ==
    /\ TerminalCall(CmdTouch)
    /\ call.state = "Succeeded"
    /\ NodeAt(Folder(call.vfsIn), TouchSegments).type = "file"
    /\ NodeAt(Folder(call.vfsIn), TouchSegments).content # <<>>
    /\ NodeAt(Folder(vfsData), TouchSegments) = File(<<>>)

\* the path CmdMkdir names, and its segments
MkdirPath == <<"/", "notes", "/", "sub">>
MkdirSegments == << <<"notes">>, <<"sub">> >>

\* every segment of segs names a folder of the tree
FoldersExist(tree, segs) ==
    \A k \in 1..Len(segs) : NodeAt(Folder(tree), SubSeq(segs, 1, k)).type = "folder"

\* C39: mkdir of a path whose folders all exist succeeds, leaves a tree equal
\* to the one it found and still records exactly one STATE_CHANGE event, the
\* MKDIR of the tree; and ensureDirectoryExists applied again to the tree any
\* mkdir returned, with the same path, returns a tree equal to it.
C39_EnsureIdempotent ==
    TerminalCall(CmdMkdir) =>
        /\ FoldersExist(call.vfsIn, MkdirSegments) =>
              /\ call.state = "Succeeded"
              /\ vfsData = call.vfsIn
              /\ Cardinality(StateChangeEvents) = 1
              /\ \A i \in StateChangeEvents :
                    auditLog[i].domain = "VFS" /\ auditLog[i].action = "MKDIR"
        /\ call.state = "Succeeded" =>
              /\ FoldersExist(vfsData, MkdirSegments)
              /\ ~ensureDirectoryExists(vfsData, MkdirPath).threw
              /\ ensureDirectoryExists(vfsData, MkdirPath).newVFS.val = vfsData

\* mkdir of a path that an earlier mkdir had made
C39_Witness ==
    /\ TerminalCall(CmdMkdir)
    /\ call.n = 2
    /\ call.state = "Succeeded"
    /\ call.vfsIn # <<>>
    /\ FoldersExist(call.vfsIn, MkdirSegments)
    /\ vfsData = call.vfsIn
====
